---- MODULE Spec2Model ----
(***************************************************************************)
(* A model of the starapi core: the WebSocket state machine of             *)
(* starapi/requests.py and the route dispatch of starapi/routing.py.       *)
(*                                                                         *)
(* Python is modelled as CPython runs it by default: assert statements are *)
(* executed.  A coroutine runs without interruption between two awaits of  *)
(* a gateway callable; the only place where another task of the same       *)
(* connection can run in the middle of a WebSocket method is the           *)
(* `await self._receive()` of WebSocket.receive.  A message counts as      *)
(* forwarded when it is handed to the gateway's send callable.             *)
(***************************************************************************)
EXTENDS Integers, Sequences, FiniteSets, TLC

\* Bounds of the model.
MaxInbound == 3     \* inbound gateway messages delivered to one connection
MaxSent == 3        \* outbound messages handed to the gateway on one connection
MaxInboundConc == 2 \* the same two bounds when two tasks share the connection
MaxSentConc == 2

Absent == "<absent>"        \* a key that a message does not carry
MISSING == "<MISSING>"      \* utils.MISSING, the default of optional arguments

WSState == {"connecting", "connected", "disconnected"}

\* enums.WSMessageType: the members requests.py and routing.py name.
WSMessageType ==
    {"websocket.connect", "websocket.accept", "websocket.receive",
     "websocket.send", "websocket.disconnect", "websocket.close"}

\* enums.WSCodes members used by the model.
NORMAL_CLOSURE == 1000
GOING_AWAY == 1001

\* A gateway message; every message carries all keys, unused ones Absent / 0.
Msg(type) ==
    [type |-> type, text |-> Absent, bytes |-> Absent, code |-> 0,
     reason |-> Absent, status |-> 0, body |-> Absent]

NoMsg == Msg("<none>")

\* Messages the gateway may deliver to a WebSocket connection: the three inbound
\* types of the protocol and, as the "anything else" of the receive table, the
\* three outbound types.
InMsgs ==
    {Msg("websocket.connect"),
     [Msg("websocket.receive") EXCEPT !.text = "hi"],
     [Msg("websocket.receive") EXCEPT !.bytes = "by"],
     [Msg("websocket.disconnect") EXCEPT !.code = NORMAL_CLOSURE],
     [Msg("websocket.disconnect") EXCEPT !.code = GOING_AWAY],
     Msg("websocket.accept"),
     [Msg("websocket.send") EXCEPT !.text = "hi"],
     [Msg("websocket.close") EXCEPT !.code = NORMAL_CLOSURE, !.reason = ""]}

\* Messages the application may pass to WebSocket.send.
OutMsgs ==
    {Msg("websocket.accept"),
     [Msg("websocket.send") EXCEPT !.text = "hi"],
     [Msg("websocket.send") EXCEPT !.bytes = "by"],
     [Msg("websocket.close") EXCEPT !.code = NORMAL_CLOSURE, !.reason = ""],
     [Msg("websocket.close") EXCEPT !.code = GOING_AWAY, !.reason = "bye"],
     Msg("websocket.connect"),
     [Msg("websocket.receive") EXCEPT !.text = "hi"],
     [Msg("websocket.disconnect") EXCEPT !.code = NORMAL_CLOSURE]}

VARIABLES
    client_state,       \* WebSocket.client_state
    application_state,  \* WebSocket.application_state
    sent,               \* the messages handed to the gateway's send, in order
    consumed,           \* how many inbound messages the gateway has delivered
    task,               \* per task of the connection: the call it is suspended in
    ntasks,             \* how many tasks use the connection
    last,               \* the call that completed last, with its outcome
    routes,             \* Router.routes, in registration order
    docs,               \* whether the application was given an OpenAPI document
    scope,              \* the connection scope: type, method, path, path_params, endpoint;
                        \* requested remembers the path as the gateway gave it
    phase,              \* "new": not dispatched yet; "endpoint": a WebSocket endpoint
                        \* runs; "done": Router.__call__ has returned or raised
    called,             \* index of the route whose __call__ ran (0: none)
    invoked,            \* indices of the routes whose callback was invoked, in order
    escaped,            \* the exception that escaped Router.__call__
    kwargs,             \* the keyword arguments the route callback was invoked with
    lifespan,           \* a run of Router.lifespan: position, scope, messages, events
    request,            \* a Request: the body stream, its cache, the last call
    pipeline,           \* a run of Route.__call__ for a route with or without a group
    registry,           \* the application's groups, instances and registered routes
    response,           \* a Response object and its emissions
    wsendpoint,         \* a run of WebSocketRoute.__call__ on one connection
    readers             \* two tasks reading the body of the same Request

wsvars == <<client_state, application_state, sent, consumed, task, ntasks, last>>

routervars == <<routes, docs, scope, phase, called, invoked, escaped, kwargs>>

lifespanvars == <<lifespan>>

requestvars == <<request>>

appvars == <<pipeline, registry, response>>

endpointvars == <<wsendpoint, readers>>

vars == <<wsvars, routervars, lifespanvars, requestvars, appvars, endpointvars>>

\* No lifespan run and no HTTP request: the value of the two variables in the
\* specifications about something else.
NoLifespan == [pc |-> "none"]

NoRequest == [pc |-> "none"]

NoPipeline == [pc |-> "none"]

NoRegistry == [pc |-> "none"]

NoResponse == [pc |-> "none"]

NoEndpoint == [pc |-> "none"]

NoReaders == [pc |-> "none"]

Idle == [pc |-> "idle", op |-> "-", branch |-> "-", n |-> 0]

NoCall ==
    [op |-> "-", branch |-> "-", pre_client |-> "-", pre_app |-> "-",
     inmsg |-> NoMsg, outmsg |-> NoMsg, raised |-> "none", ret |-> Absent,
     consumed |-> 0, fwd |-> <<>>, post_client |-> "-", post_app |-> "-"]

-----------------------------------------------------------------------------
(* WebSocket: the pure parts of the methods of requests.py.                *)

\* Mutant of WebSocket_receive: a websocket.disconnect is returned without
\* recording the disconnection.
WebSocket_receive_keeps_connected(branch, cs, msg) ==
    IF branch = "connecting"
    THEN IF msg.type # "websocket.connect"
         THEN [client_state |-> cs, raised |-> "UnexpectedASGIMessageType"]
         ELSE [client_state |-> "connected", raised |-> "none"]
    ELSE IF msg.type \notin {"websocket.disconnect", "websocket.receive"}
         THEN [client_state |-> cs, raised |-> "UnexpectedASGIMessageType"]
         ELSE [client_state |-> cs, raised |-> "none"]

\* WebSocket.receive after `await self._receive()` returned msg.  branch is the
\* case of `match self.client_state` the call entered, cs the field's value now.
WebSocket_receive(branch, cs, msg) ==
    IF branch = "connecting"
    THEN IF msg.type # "websocket.connect"
         THEN [client_state |-> cs, raised |-> "UnexpectedASGIMessageType"]
         ELSE [client_state |-> "connected", raised |-> "none"]
    ELSE IF msg.type = "websocket.disconnect"
         THEN [client_state |-> "disconnected", raised |-> "none"]
         ELSE IF msg.type \notin {"websocket.disconnect", "websocket.receive"}
              THEN [client_state |-> cs, raised |-> "UnexpectedASGIMessageType"]
              ELSE [client_state |-> cs, raised |-> "none"]

\* Mutants of WebSocket_send.  A closed connection is treated like a connecting
\* one (the final `case other` is missing):
WebSocket_send_reopens(app, msg) ==
    CASE app \in {"connecting", "disconnected"} /\ msg.type = "websocket.accept" ->
           [application_state |-> "connected", raised |-> "none", forwarded |-> TRUE]
      [] app \in {"connecting", "connected", "disconnected"} /\ msg.type = "websocket.close" ->
           [application_state |-> "disconnected", raised |-> "none", forwarded |-> TRUE]
      [] app = "connected" /\ msg.type = "websocket.send" ->
           [application_state |-> app, raised |-> "none", forwarded |-> TRUE]
      [] OTHER ->
           [application_state |-> app, raised |-> "UnexpectedASGIMessageType",
            forwarded |-> FALSE]

\* the message is handed to the gateway before its type is checked:
WebSocket_send_forwards_first(app, msg) ==
    CASE app = "disconnected" ->
           [application_state |-> app,
            raised |-> "RuntimeError: Websocket has already been closed", forwarded |-> FALSE]
      [] msg.type = "websocket.close" ->
           [application_state |-> "disconnected", raised |-> "none", forwarded |-> TRUE]
      [] app = "connecting" /\ msg.type = "websocket.accept" ->
           [application_state |-> "connected", raised |-> "none", forwarded |-> TRUE]
      [] app = "connected" /\ msg.type = "websocket.send" ->
           [application_state |-> app, raised |-> "none", forwarded |-> TRUE]
      [] OTHER ->
           [application_state |-> app, raised |-> "UnexpectedASGIMessageType",
            forwarded |-> TRUE]

\* a close is handed to the gateway without recording the disconnection:
WebSocket_send_close_not_recorded(app, msg) ==
    CASE app = "disconnected" ->
           [application_state |-> app,
            raised |-> "RuntimeError: Websocket has already been closed", forwarded |-> FALSE]
      [] msg.type = "websocket.close" ->
           [application_state |-> app, raised |-> "none", forwarded |-> TRUE]
      [] app = "connecting" /\ msg.type = "websocket.accept" ->
           [application_state |-> "connected", raised |-> "none", forwarded |-> TRUE]
      [] app = "connected" /\ msg.type = "websocket.send" ->
           [application_state |-> app, raised |-> "none", forwarded |-> TRUE]
      [] OTHER ->
           [application_state |-> app, raised |-> "UnexpectedASGIMessageType",
            forwarded |-> FALSE]

\* WebSocket.send: the new application_state, the exception raised, and whether
\* `await self._send(msg)` is reached.
WebSocket_send(app, msg) ==
    CASE app = "connecting" ->
           CASE msg.type = "websocket.accept" ->
                  [application_state |-> "connected", raised |-> "none", forwarded |-> TRUE]
             [] msg.type = "websocket.close" ->
                  [application_state |-> "disconnected", raised |-> "none", forwarded |-> TRUE]
             [] OTHER ->
                  [application_state |-> app, raised |-> "UnexpectedASGIMessageType",
                   forwarded |-> FALSE]
      [] app = "connected" ->
           CASE msg.type = "websocket.close" ->
                  [application_state |-> "disconnected", raised |-> "none", forwarded |-> TRUE]
             [] msg.type = "websocket.send" ->
                  [application_state |-> app, raised |-> "none", forwarded |-> TRUE]
             [] OTHER ->
                  [application_state |-> app, raised |-> "UnexpectedASGIMessageType",
                   forwarded |-> FALSE]
      [] OTHER ->
           [application_state |-> app, raised |-> "RuntimeError: Websocket has already been closed",
            forwarded |-> FALSE]

\* The message WebSocket.accept sends (subprotocol None, no headers).
AcceptMsg == Msg("websocket.accept")

\* The message WebSocket.close(code, reason) sends: MISSING (0 for the code) is
\* falsy, so `code or WSCodes.NORMAL_CLOSURE` and `reason or ""` apply.
CloseMsg(code, reason) ==
    [Msg("websocket.close") EXCEPT
        !.code = IF code = 0 THEN NORMAL_CLOSURE ELSE code,
        !.reason = IF reason = MISSING THEN "" ELSE reason]

\* json.dumps(data, separators=(",", ":")) and json.loads on the values of the model.
JsonValues == {"dict:a=1", "list:empty"}

JsonDumps(data) == IF data = "dict:a=1" THEN "{\"a\":1}" ELSE "[]"

JsonLoads(text) ==
    CASE text = "{\"a\":1}" -> [raised |-> "none", value |-> "dict:a=1"]
      [] text = "[]" -> [raised |-> "none", value |-> "list:empty"]
      [] OTHER -> [raised |-> "JSONDecodeError", value |-> Absent]

\* The message send_text / send_bytes / send_json pass to send.
SendHelperMsg(kind, content) ==
    CASE kind = "text" -> [Msg("websocket.send") EXCEPT !.text = content]
      [] kind = "bytes" -> [Msg("websocket.send") EXCEPT !.bytes = content]
      [] OTHER -> [Msg("websocket.send") EXCEPT !.text = JsonDumps(content)]

\* receive_text / receive_bytes / receive_json after `await self.receive()`
\* returned msg: the assert, _raise_on_disconnect, then the payload; a missing
\* key (KeyError) makes the loop call receive() again.
WebSocket_receive_helper(kind, msg) ==
    IF msg.type # "websocket.send"
    THEN [raised |-> "AssertionError", ret |-> Absent, again |-> FALSE]
    ELSE IF msg.type = "websocket.disconnect"
    THEN [raised |-> "WebSocketDisconnect", ret |-> Absent, again |-> FALSE]
    ELSE IF kind = "bytes"
    THEN IF msg.bytes = Absent
         THEN [raised |-> "none", ret |-> Absent, again |-> TRUE]
         ELSE [raised |-> "none", ret |-> msg.bytes, again |-> FALSE]
    ELSE IF msg.text = Absent
    THEN [raised |-> "none", ret |-> Absent, again |-> TRUE]
    ELSE IF kind = "text"
    THEN [raised |-> "none", ret |-> msg.text, again |-> FALSE]
    ELSE [raised |-> JsonLoads(msg.text).raised, ret |-> JsonLoads(msg.text).value,
          again |-> FALSE]

\* _ws_must_be_connected: the decorator's check before the helper runs.
ws_must_be_connected(app) ==
    IF app # "connected" THEN "WebSocketDisconnected" ELSE "none"

-----------------------------------------------------------------------------
(* WebSocket: the calls.  A call that reaches `await self._receive()` is   *)
(* suspended until the gateway delivers a message (GatewayDeliver).        *)

Tasks == 1..ntasks

InboundBound == IF ntasks = 1 THEN MaxInbound ELSE MaxInboundConc

SentBound == IF ntasks = 1 THEN MaxSent ELSE MaxSentConc

CallRecord(op, branch, inmsg, outmsg, raised, ret, n, fwd, cs, app) ==
    [op |-> op, branch |-> branch,
     pre_client |-> client_state, pre_app |-> application_state,
     inmsg |-> inmsg, outmsg |-> outmsg, raised |-> raised, ret |-> ret,
     consumed |-> n, fwd |-> fwd, post_client |-> cs, post_app |-> app]

\* Mutant of EnterReceive: receive() awaits a message whatever client_state is.
EnterReceive_always_awaits(t, op, n) ==
    /\ task' = [task EXCEPT ![t] =
                   [pc |-> "receiving", op |-> op, branch |-> client_state, n |-> n]]
    /\ UNCHANGED last

\* `match self.client_state` of WebSocket.receive, entered by call op of task t
\* that has consumed n messages so far: suspend in _receive(), or raise.
EnterReceive(t, op, n) ==
    IF client_state \in {"connecting", "connected"}
    THEN /\ task' = [task EXCEPT ![t] =
                        [pc |-> "receiving", op |-> op, branch |-> client_state, n |-> n]]
         /\ UNCHANGED last
    ELSE /\ task' = [task EXCEPT ![t] = Idle]
         /\ last' = CallRecord(op, "disconnected", NoMsg, NoMsg,
                               "RuntimeError: Disconnect message has already been received",
                               Absent, n, <<>>, client_state, application_state)

\* A call of WebSocket.send(msg) made by operation op, with nothing awaited before it.
DoSend(t, op, msg) ==
    LET s == WebSocket_send(application_state, msg) IN
    /\ task[t].pc = "idle"
    /\ s.forwarded => Len(sent) < SentBound
    /\ application_state' = s.application_state
    /\ sent' = IF s.forwarded THEN Append(sent, msg) ELSE sent
    /\ last' = CallRecord(op, "-", NoMsg, msg, s.raised, Absent, 0,
                          IF s.forwarded THEN <<msg>> ELSE <<>>,
                          client_state, s.application_state)
    /\ UNCHANGED <<client_state, consumed, task, ntasks, routervars, lifespanvars, requestvars, appvars, endpointvars>>

\* ws.receive()
Receive(t) ==
    /\ task[t].pc = "idle"
    /\ EnterReceive(t, "receive", 0)
    /\ UNCHANGED <<client_state, application_state, sent, consumed, ntasks, routervars, lifespanvars, requestvars, appvars, endpointvars>>

\* ws.send(msg)
Send(t, msg) == DoSend(t, "send", msg)

\* Mutant of Accept: accept() sends websocket.accept without draining the connect.
Accept_without_drain(t) == DoSend(t, "accept", AcceptMsg)

\* ws.accept()
Accept(t) ==
    IF client_state = "connecting"
    THEN /\ task[t].pc = "idle"
         /\ EnterReceive(t, "accept", 0)
         /\ UNCHANGED <<client_state, application_state, sent, consumed, ntasks, routervars, lifespanvars, requestvars, appvars, endpointvars>>
    ELSE DoSend(t, "accept", AcceptMsg)

\* ws.close(code, reason)
Close(t, code, reason) == DoSend(t, "close", CloseMsg(code, reason))

\* ws.send_text(content), ws.send_bytes(content), ws.send_json(data)
SendHelper(t, kind, content) == DoSend(t, "send_" \o kind, SendHelperMsg(kind, content))

\* ws.receive_text(), ws.receive_bytes(), ws.receive_json()
ReceiveHelper(t, kind) ==
    /\ task[t].pc = "idle"
    /\ IF ws_must_be_connected(application_state) # "none"
       THEN /\ task' = task
            /\ last' = CallRecord("receive_" \o kind, "-", NoMsg, NoMsg,
                                  ws_must_be_connected(application_state), Absent, 0, <<>>,
                                  client_state, application_state)
       ELSE EnterReceive(t, "receive_" \o kind, 0)
    /\ UNCHANGED <<client_state, application_state, sent, consumed, ntasks, routervars, lifespanvars, requestvars, appvars, endpointvars>>

HelperKind(op) ==
    CASE op = "receive_text" -> "text"
      [] op = "receive_bytes" -> "bytes"
      [] OTHER -> "json"

\* What the suspended call op does once receive() got msg: the new states, the
\* exception, the return value, the messages forwarded, and whether the call
\* awaits a further message.
Resume(op, branch, msg) ==
    LET r == WebSocket_receive(branch, client_state, msg)
        s == WebSocket_send(application_state, AcceptMsg)
        h == WebSocket_receive_helper(HelperKind(op), msg)
        base == [client_state |-> r.client_state, application_state |-> application_state,
                 raised |-> r.raised, ret |-> Absent, fwd |-> <<>>, again |-> FALSE]
    IN  IF r.raised # "none" \/ op = "receive"
        THEN base
        ELSE IF op = "accept"
        THEN [base EXCEPT !.application_state = s.application_state,
                          !.raised = s.raised,
                          !.fwd = IF s.forwarded THEN <<AcceptMsg>> ELSE <<>>]
        ELSE [base EXCEPT !.raised = h.raised, !.ret = h.ret, !.again = h.again]

\* The gateway's receive callable returns msg to the suspended task t.
GatewayDeliver(t, msg) ==
    LET tk == task[t]
        res == Resume(tk.op, tk.branch, msg)
        rec == CallRecord(tk.op, tk.branch, msg, NoMsg, res.raised, res.ret, tk.n + 1,
                          res.fwd, res.client_state, res.application_state)
    IN  /\ tk.pc = "receiving"
        /\ consumed < InboundBound
        /\ Len(sent) + Len(res.fwd) <= SentBound
        /\ consumed' = consumed + 1
        /\ client_state' = res.client_state
        /\ application_state' = res.application_state
        /\ sent' = sent \o res.fwd
        /\ IF ~res.again
           THEN /\ task' = [task EXCEPT ![t] = Idle]
                /\ last' = rec
           ELSE IF res.client_state \in {"connecting", "connected"}
           THEN /\ task' = [task EXCEPT ![t] = [tk EXCEPT !.branch = res.client_state,
                                                          !.n = tk.n + 1]]
                /\ UNCHANGED last
           ELSE /\ task' = [task EXCEPT ![t] = Idle]
                /\ last' = [rec EXCEPT !.raised =
                              "RuntimeError: Disconnect message has already been received"]
        /\ UNCHANGED <<ntasks, routervars, lifespanvars, requestvars, appvars, endpointvars>>

-----------------------------------------------------------------------------
(* Routing (routing.py).  A path is the sequence of its "/" separators and *)
(* of the runs of characters between them: "/a/b" is <<"/","a","/","b">>.  *)

MaxRoutes == 2      \* routes registered with the router

\* str.split("/")
RECURSIVE SplitAcc(_, _, _)
SplitAcc(p, cur, acc) ==
    IF p = <<>> THEN Append(acc, cur)
    ELSE IF Head(p) = "/" THEN SplitAcc(Tail(p), "", Append(acc, cur))
    ELSE SplitAcc(Tail(p), cur \o Head(p), acc)

Split(p) == SplitAcc(p, "", <<>>)

\* The characters of the path segments the model uses.
Chars(s) ==
    CASE s = "" -> <<>>
      [] s = "a" -> <<"a">>
      [] s = "b" -> <<"b">>
      [] s = "u" -> <<"u">>
      [] s = "12" -> <<"1", "2">>
      [] s = "007" -> <<"0", "0", "7">>
      [] s = "-5" -> <<"-", "5">>
      [] s = "1.5" -> <<"1", ".", "5">>
      [] s = "1.50" -> <<"1", ".", "5", "0">>
      [] s = "1x5" -> <<"1", "x", "5">>
      [] s = "inf" -> <<"i", "n", "f">>
      [] s = "2020-01-02" -> <<"2", "0", "2", "0", "-", "0", "1", "-", "0", "2">>
      [] s = "openapi.json" ->
           <<"o", "p", "e", "n", "a", "p", "i", ".", "j", "s", "o", "n">>
      [] s = "{id}" -> <<"{", "i", "d", "}">>
      [] s = "{x}" -> <<"{", "x", "}">>
      [] s = "{when}" -> <<"{", "w", "h", "e", "n", "}">>

Digits == {"0", "1", "2", "3", "4", "5", "6", "7", "8", "9"}

DigitVal(c) ==
    CASE c = "0" -> 0 [] c = "1" -> 1 [] c = "2" -> 2 [] c = "3" -> 3 [] c = "4" -> 4
      [] c = "5" -> 5 [] c = "6" -> 6 [] c = "7" -> 7 [] c = "8" -> 8 [] c = "9" -> 9

\* The value of a run of decimal digits.
RECURSIVE DigitsVal(_)
DigitsVal(cs) ==
    IF cs = <<>> THEN 0
    ELSE 10 * DigitsVal(SubSeq(cs, 1, Len(cs) - 1)) + DigitVal(cs[Len(cs)])

\* PATH_PARAM_REGEX.fullmatch(endpoint)["name"]: "{name}" with name an identifier;
\* "" when the segment is not a parameter.
ParamName(endpoint) ==
    LET cs == Chars(endpoint)
        Ident == {"i", "d", "x", "w", "h", "e", "n", "a", "b", "u", "_"}
    IN  IF /\ Len(cs) >= 3 /\ cs[1] = "{" /\ cs[Len(cs)] = "}"
           /\ \A k \in 2..(Len(cs) - 1) : cs[k] \in Ident
        THEN CASE endpoint = "{id}" -> "id"
               [] endpoint = "{x}" -> "x"
               [] endpoint = "{when}" -> "when"
        ELSE ""

\* re.escape(endpoint) for the segments of the model: every character that is
\* not alphanumeric or "_" gets a backslash.
ReEscape(endpoint) ==
    CASE endpoint = "openapi.json" -> "openapi\\.json"
      [] endpoint = "1.5" -> "1\\.5"
      [] endpoint = "1.50" -> "1\\.50"
      [] endpoint = "-5" -> "\\-5"
      [] endpoint = "2020-01-02" -> "2020\\-01\\-02"
      [] endpoint = "{id}" -> "\\{id\\}"
      [] endpoint = "{x}" -> "\\{x\\}"
      [] endpoint = "{when}" -> "\\{when\\}"
      [] OTHER -> endpoint

\* converters.py: builtin_converters, by the annotation of the parameter, and the
\* regex of each converter class.
builtin_converters(annotation) ==
    CASE annotation = "int" -> "IntConverter"
      [] annotation = "float" -> "FloatConverter"
      [] annotation = "datetime" -> "DatetimeConverter"
      [] OTHER -> "None"

Converter_regex(converter) ==
    CASE converter = "IntConverter" -> "[0-9]*"
      [] converter = "FloatConverter" -> "[0-9]*.[0-9]*"
      [] OTHER -> ".*"

\* int(value) for a string of the model: an optional sign and at least one digit.
\* Values carry their Python type: <<"int", n>>, <<"float", n, k>> for n / 10^k,
\* <<"inf">>, <<"str", s>>, <<"datetime", ...>>.
PyInt(cs) ==
    LET signed == cs # <<>> /\ cs[1] \in {"-", "+"}
        ds == IF signed THEN Tail(cs) ELSE cs
    IN  IF ds = <<>> \/ \E k \in 1..Len(ds) : ds[k] \notin Digits
        THEN [raised |-> "ValueError", value |-> <<>>]
        ELSE [raised |-> "none",
              value |-> <<"int", IF signed /\ cs[1] = "-" THEN 0 - DigitsVal(ds)
                                 ELSE DigitsVal(ds)>>]

\* The float n / 10^k without trailing zeros in the fraction.
RECURSIVE FloatNorm(_, _)
FloatNorm(n, k) ==
    IF k > 0 /\ n % 10 = 0 THEN FloatNorm(n \div 10, k - 1) ELSE <<"float", n, k>>

\* float(value) for a string of the model: "inf", or an optional sign, digits and
\* at most one ".", with at least one digit.
PyFloat(cs) ==
    LET signed == cs # <<>> /\ cs[1] \in {"-", "+"}
        ds == IF signed THEN Tail(cs) ELSE cs
        dots == {k \in 1..Len(ds) : ds[k] = "."}
        dot == IF dots = {} THEN Len(ds) + 1 ELSE CHOOSE k \in dots : TRUE
        whole == SubSeq(ds, 1, dot - 1)
        frac == SubSeq(ds, dot + 1, Len(ds))
        n == DigitsVal(whole \o frac)
    IN  IF cs = <<"i", "n", "f">> THEN [raised |-> "none", value |-> <<"inf">>]
        ELSE IF \/ Cardinality(dots) > 1
                \/ whole \o frac = <<>>
                \/ \E k \in 1..Len(ds) : ds[k] \notin Digits \cup {"."}
        THEN [raised |-> "ValueError", value |-> <<>>]
        ELSE [raised |-> "none",
              value |-> FloatNorm(IF signed /\ cs[1] = "-" THEN 0 - n ELSE n, Len(frac))]

\* datetime.datetime.fromisoformat(inp) for a string of the model.
FromIsoFormat(inp) ==
    IF inp = "2020-01-02"
    THEN [raised |-> "none", value |-> <<"datetime", 2020, 1, 2>>]
    ELSE [raised |-> "ValueError", value |-> <<>>]

\* DatetimeConverter.convert; f is float(inp) or the ValueError it raises.  In
\* DatetimeConverter, fromtimestamp of an infinite float raises OverflowError,
\* which no except clause of convert names; the ValueError of fromisoformat is
\* not caught by `except OSError` either and leaves convert as it is.
DatetimeConverter_convert(inp, f) ==
    IF f.raised = "none"
    THEN IF f.value = <<"inf">>
         THEN [raised |-> "OverflowError", value |-> <<>>]
         ELSE [raised |-> "none", value |-> <<"datetime", "fromtimestamp", f.value>>]
    ELSE FromIsoFormat(inp)

\* IntConverter.convert, FloatConverter.convert and DatetimeConverter.convert by
\* the class of the converter.
Converter_convert(converter, value) ==
    CASE converter = "IntConverter" -> PyInt(Chars(value))
      [] converter = "FloatConverter" ->
           IF "." \in {Chars(value)[k] : k \in 1..Len(Chars(value))}
           THEN PyFloat(Chars(value))
           ELSE [raised |-> "ValueError", value |-> <<>>]
      [] OTHER -> DatetimeConverter_convert(value, PyFloat(Chars(value)))

\* signature[name] of the callback's path parameters (a sequence of <<name,
\* annotation>> pairs), "" when the callback has no such parameter.
Annotation(signature, name) ==
    IF \E k \in 1..Len(signature) : signature[k][1] = name
    THEN signature[CHOOSE k \in 1..Len(signature) : signature[k][1] = name][2]
    ELSE ""

\* The loop of BaseRoute._compile_path over self.path.split("/"): left are the
\* parameters of the callback not yet popped.
RECURSIVE CompileAcc(_, _, _, _)
CompileAcc(segs, i, left, acc) ==
    IF i > Len(segs) THEN [data |-> acc, left |-> left, raised |-> "none"]
    ELSE LET name == ParamName(segs[i])
             ann == Annotation(left, name)
             conv == builtin_converters(ann)
             rest == SelectSeq(left, LAMBDA q : q[1] # name)
         IN  IF name = "" \/ ann = ""
             THEN CompileAcc(segs, i + 1, left,
                             Append(acc, [regex |-> ReEscape(segs[i]), extra |-> <<>>]))
             ELSE IF conv = "None"
             THEN [data |-> acc, left |-> rest, raised |-> "ConverterNotFound"]
             ELSE CompileAcc(segs, i + 1, rest,
                             Append(acc, [regex |-> Converter_regex(conv),
                                          extra |-> <<conv, name>>]))

\* Mutant of BaseRoute_compile_path: no empty literal is appended to a pattern
\* that does not end with "/".
BaseRoute_compile_path_no_append(path, signature) ==
    CompileAcc(Split(path), 1, signature, <<>>)

\* BaseRoute._compile_path: one (regex, extra) pair per segment of the pattern, an
\* empty literal appended when the pattern does not end with "/"; RuntimeError
\* when a parameter of the callback is not in the pattern.
BaseRoute_compile_path(path, signature) ==
    LET c == CompileAcc(Split(path), 1, signature, <<>>)
    IN  IF c.raised # "none" THEN c
        ELSE IF c.left # <<>> THEN [c EXCEPT !.raised = "RuntimeError"]
        ELSE IF c.data[Len(c.data)].regex # ""
        THEN [c EXCEPT !.data = Append(c.data, [regex |-> "", extra |-> <<>>])]
        ELSE c

\* re.fullmatch(regex, client_endpoint): the regex of a converter, or the escaped
\* literal of a segment.
FullMatch(regex, client_endpoint) ==
    LET cs == Chars(client_endpoint) IN
    CASE regex = "[0-9]*" -> \A k \in 1..Len(cs) : cs[k] \in Digits
      [] regex = "[0-9]*.[0-9]*" ->
           \E d \in 1..Len(cs) : \A k \in 1..Len(cs) : k # d => cs[k] \in Digits
      [] regex = ".*" -> TRUE
      [] OTHER -> regex = ReEscape(client_endpoint)

NoMatch == [match |-> FALSE, params |-> <<>>, raised |-> "none"]

\* Mutant of MatchAcc: the segment itself is recorded, not the converted value.
RECURSIVE MatchAcc_records_segment(_, _, _, _)
MatchAcc_records_segment(data, client_path, i, params) ==
    IF i > Len(data) THEN [match |-> TRUE, params |-> params, raised |-> "none"]
    ELSE IF ~FullMatch(data[i].regex, client_path[i]) THEN NoMatch
    ELSE IF data[i].extra = <<>>
    THEN MatchAcc_records_segment(data, client_path, i + 1, params)
    ELSE LET c == Converter_convert(data[i].extra[1], client_path[i])
         IN  IF c.raised = "ValueError" THEN NoMatch
             ELSE IF c.raised # "none" THEN [NoMatch EXCEPT !.raised = c.raised]
             ELSE MatchAcc_records_segment(data, client_path, i + 1,
                      Append(params, <<data[i].extra[2], <<"str", client_path[i]>> >>))

\* The loop of BaseRoute._match over zip(client_path, self._path_data): params is
\* the local dict, as a sequence of <<name, value>> pairs.  A ValueError of the
\* converter is a no-match, any other exception leaves _match.
RECURSIVE MatchAcc(_, _, _, _)
MatchAcc(data, client_path, i, params) ==
    IF i > Len(data) THEN [match |-> TRUE, params |-> params, raised |-> "none"]
    ELSE IF ~FullMatch(data[i].regex, client_path[i]) THEN NoMatch
    ELSE IF data[i].extra = <<>> THEN MatchAcc(data, client_path, i + 1, params)
    ELSE LET c == Converter_convert(data[i].extra[1], client_path[i])
         IN  IF c.raised = "ValueError" THEN NoMatch
             ELSE IF c.raised # "none" THEN [NoMatch EXCEPT !.raised = c.raised]
             ELSE MatchAcc(data, client_path, i + 1,
                           Append(params, <<data[i].extra[2], c.value>>))

\* BaseRoute._match: whether the path matches, the path_params it writes into
\* the scope when it does, and the exception that leaves it.
BaseRoute_match(route, path) ==
    LET client_path == Split(path)
        data == route.path_data
    IN  IF Len(client_path) # Len(data) THEN NoMatch
        ELSE MatchAcc(data, client_path, 1, <<>>)

\* Route._match / WebSocketRoute._match: the kind of the connection first.
Route_match(route, type, path) ==
    IF type # route.kind THEN NoMatch
    ELSE BaseRoute_match(route, path)

\* Mutant of FirstMatch: the loop does not stop at the first match, the last one wins.
LastMatch(rs, type, path, i) ==
    LET S == {j \in i..Len(rs) : \/ Route_match(rs[j], type, path).match
                                 \/ Route_match(rs[j], type, path).raised # "none"}
    IN  IF S = {} THEN 0 ELSE CHOOSE j \in S : \A k \in S : k <= j

\* `for route in self.routes: if route._match(request) is True`: the index of the
\* first route, from i on, at which the loop stops, because the route matches or
\* because its _match raises; 0 when the loop ends without one.
RECURSIVE FirstMatch(_, _, _, _)
FirstMatch(rs, type, path, i) ==
    IF i > Len(rs) THEN 0
    ELSE IF \/ Route_match(rs[i], type, path).match
            \/ Route_match(rs[i], type, path).raised # "none" THEN i
    ELSE FirstMatch(rs, type, path, i + 1)

\* Response.__call__ with the default formatter: the two messages sent.  body is
\* the data the Response was built with ("None" for None); its encoding to bytes
\* by State.default_encoder is not part of the model.
Response_call(status, body) ==
    << [Msg("http.response.start") EXCEPT !.status = status],
       [Msg("http.response.body") EXCEPT !.body = body] >>

NoResult ==
    [called |-> 0, invoked |-> <<>>, raised |-> "none", fwd |-> <<>>, endpoint |-> 0,
     application_state |-> "connecting", phase |-> "done", kwargs |-> Absent]

\* Route.__call__ of route i for an HTTP request: the callback is called with the
\* request and **request._scope["path_params"]; cb is what the callback does.
\* State.on_route_error (state.py) starts a task and returns None, so awaiting
\* its result raises TypeError.
Route_call(i, route, method, path_params, cb) ==
    IF method \notin route.methods
    THEN [NoResult EXCEPT !.called = i,
                          !.fwd = Response_call(405, "Method Not Allowed")]
    ELSE IF cb = "raise"
    THEN [NoResult EXCEPT !.called = i, !.endpoint = i, !.invoked = <<i>>,
                          !.kwargs = path_params, !.raised = "TypeError"]
    ELSE [NoResult EXCEPT !.called = i, !.endpoint = i, !.invoked = <<i>>,
                          !.kwargs = path_params, !.fwd = Response_call(200, "ok")]

\* WebSocketRoute.__call__ of route i: the endpoint starts with on_connect(ws).
WebSocketRoute_call(i) ==
    [NoResult EXCEPT !.called = i, !.endpoint = i, !.invoked = <<i>>, !.kwargs = <<>>,
                     !.phase = "endpoint"]

\* State.get_docs(): the OpenAPI document when the application has one.
get_docs(d) == IF d THEN "openapi document" ELSE "None"

\* Router.handle_openapi_route: the assert, then the document if there is one.
handle_openapi_route(type, d) ==
    IF type # "http" THEN [handled |-> FALSE, raised |-> "AssertionError", fwd |-> <<>>]
    ELSE IF get_docs(d) = "None" THEN [handled |-> FALSE, raised |-> "none", fwd |-> <<>>]
    ELSE [handled |-> TRUE, raised |-> "none", fwd |-> Response_call(200, get_docs(d))]

\* `if not path.endswith("/"): path += "/"`
NormalizePath(path) ==
    IF path = <<>> \/ path[Len(path)] # "/" THEN Append(path, "/") ELSE path

\* Router.__call__ on a connection whose WebSocket (if it is one) is in
\* application_state app; i is the index at which the loop over the routes
\* stops, 0 when it ends without a match.
Router_call_at(rs, type, method, path, d, app, cb, i) ==
    LET o == handle_openapi_route(type, d)
        c == WebSocket_send(app, CloseMsg(NORMAL_CLOSURE, ""))
        m == Route_match(rs[i], type, path)
    IN  IF i # 0
        THEN IF m.raised # "none" THEN [NoResult EXCEPT !.raised = m.raised]
             ELSE IF type = "http" THEN Route_call(i, rs[i], method, m.params, cb)
             ELSE WebSocketRoute_call(i)
        ELSE IF path = <<"/", "openapi.json", "/">> /\ (o.handled \/ o.raised # "none")
        THEN [NoResult EXCEPT !.raised = o.raised, !.fwd = o.fwd]
        ELSE IF type = "websocket"
        THEN [NoResult EXCEPT !.application_state = c.application_state,
                              !.raised = c.raised,
                              !.fwd = IF c.forwarded THEN <<CloseMsg(NORMAL_CLOSURE, "")>>
                                      ELSE <<>>]
        ELSE [NoResult EXCEPT !.fwd = Response_call(404, "None")]

Router_call(rs, type, method, path, d, app, cb) ==
    Router_call_at(rs, type, method, path, d, app, cb, FirstMatch(rs, type, path, 1))

\* What Router.__call__ leaves behind: r is its result for the normalised path.
DispatchResult(path, r) ==
        /\ phase = "new"
        /\ scope' = [scope EXCEPT !.path = path,
                                  !.path_params =
                                      IF r.called # 0
                                      THEN Route_match(routes[r.called], scope.type, path).params
                                      ELSE @,
                                  !.endpoint = r.endpoint]
        /\ application_state' =
               IF scope.type = "websocket" /\ r.called = 0
               THEN r.application_state ELSE application_state
        /\ sent' = sent \o r.fwd
        /\ called' = r.called
        /\ invoked' = r.invoked
        /\ escaped' = r.raised
        /\ kwargs' = r.kwargs
        /\ phase' = r.phase
        /\ UNCHANGED <<client_state, consumed, task, ntasks, last, routes, docs,
                       lifespanvars, requestvars, appvars, endpointvars>>

\* Application.__call__ for an http or websocket scope (no middleware): the
\* router dispatches the connection.
Dispatch(cb) ==
    DispatchResult(NormalizePath(scope.path),
                   Router_call(routes, scope.type, scope.method, NormalizePath(scope.path),
                               docs, application_state, cb))

NextRouter == \E cb \in {"response", "raise"} : Dispatch(cb)

Methods == {"GET", "POST"}

\* Routes the application may register: HTTP routes (app.route, route.get, ...)
\* and WebSocket routes (app.ws).
MakeParamRoute(kind, path, methods, signature) ==
    [kind |-> kind, path |-> path, methods |-> methods, signature |-> signature,
     path_data |-> BaseRoute_compile_path(path, signature).data]

MakeRoute(kind, path, methods) == MakeParamRoute(kind, path, methods, <<>>)

RoutePool ==
    {MakeRoute("http", p, m) :
        p \in {<<"/", "a">>, <<"/", "a", "/">>, <<"/", "b">>},
        m \in {{"GET"}, {"POST"}, {"GET", "HEAD"}}}
    \cup {MakeRoute("websocket", p, {}) : p \in {<<"/", "a">>, <<"/", "b">>}}

RECURSIVE SeqsUpTo(_, _)
SeqsUpTo(S, n) ==
    IF n = 0 THEN {<<>>}
    ELSE SeqsUpTo(S, n - 1) \cup
         {Append(q, x) : q \in {q \in SeqsUpTo(S, n - 1) : Len(q) = n - 1}, x \in S}

ReqPaths ==
    {<<"/">>, <<"/", "a">>, <<"/", "a", "/">>, <<"/", "b">>, <<"/", "a", "/", "b">>,
     <<"/", "openapi.json">>}

ScopesOver(paths) ==
    {[type |-> "http", method |-> m, path |-> p, path_params |-> <<>>, endpoint |-> 0,
      requested |-> p] : m \in Methods, p \in paths}
    \cup {[type |-> "websocket", method |-> "-", path |-> p, path_params |-> <<>>,
           endpoint |-> 0, requested |-> p] : p \in paths}

Scopes == ScopesOver(ReqPaths)

\* A new connection, with one of the scopes, arriving at an application with one
\* of the route lists registered.
InitDispatch(routelists, scopes) ==
    /\ client_state = "connecting"
    /\ application_state = "connecting"
    /\ sent = <<>>
    /\ consumed = 0
    /\ ntasks = 1
    /\ task = [t \in 1..1 |-> Idle]
    /\ last = NoCall
    /\ routes \in routelists
    /\ docs \in BOOLEAN
    /\ scope \in scopes
    /\ phase = "new"
    /\ called = 0
    /\ invoked = <<>>
    /\ escaped = "none"
    /\ kwargs = Absent
    /\ lifespan = NoLifespan
    /\ request = NoRequest
    /\ pipeline = NoPipeline
    /\ registry = NoRegistry
    /\ response = NoResponse
    /\ wsendpoint = NoEndpoint
    /\ readers = NoReaders

InitRouter == InitDispatch(SeqsUpTo(RoutePool, MaxRoutes), Scopes)

SpecRouter == InitRouter /\ [][NextRouter]_vars

MaxParamRoutes == 2 \* routes registered when the routes have parameters

\* Routes with path parameters: the callback's signature gives the annotation of
\* each parameter.  Only routes whose registration succeeds are in the pool.
ParamRoutePool ==
    {r \in
        {[kind |-> "http", path |-> <<"/", "u", "/", "{id}">>, methods |-> {"GET"},
          signature |-> << <<"id", "int">> >>],
         [kind |-> "http", path |-> <<"/", "u", "/", "{id}", "/">>, methods |-> {"POST"},
          signature |-> << <<"id", "int">> >>],
         [kind |-> "http", path |-> <<"/", "u", "/", "{x}">>, methods |-> {"GET"},
          signature |-> << <<"x", "float">> >>],
         [kind |-> "http", path |-> <<"/", "u", "/", "{when}">>, methods |-> {"GET"},
          signature |-> << <<"when", "datetime">> >>],
         [kind |-> "http", path |-> <<"/", "{id}", "/", "{x}">>, methods |-> {"GET"},
          signature |-> << <<"x", "float">>, <<"id", "int">> >>],
         [kind |-> "http", path |-> <<"/", "u", "/", "12">>, methods |-> {"GET"},
          signature |-> <<>>],
         [kind |-> "http", path |-> <<"/", "u", "/", "{id}">>, methods |-> {"GET"},
          signature |-> <<>>],
         [kind |-> "http", path |-> <<"/", "u", "/", "{id}">>, methods |-> {"GET"},
          signature |-> << <<"id", "str">> >>],
         [kind |-> "websocket", path |-> <<"/", "u", "/", "12">>, methods |-> {},
          signature |-> <<>>]} :
        BaseRoute_compile_path(r.path, r.signature).raised = "none"}

ParamRoutes ==
    {MakeParamRoute(r.kind, r.path, r.methods, r.signature) : r \in ParamRoutePool}

ParamSegments == {"", "12", "007", "-5", "1.5", "1.50", "1x5", "inf", "2020-01-02", "{id}"}

ParamReqPaths ==
    {<<"/", "u", "/", s>> : s \in ParamSegments}
    \cup {<<"/", "u", "/", s, "/">> : s \in {"12", "1.5"}}
    \cup {<<"/", "12", "/", "1.5">>, <<"/", "u">>}

InitParams == InitDispatch(SeqsUpTo(ParamRoutes, MaxParamRoutes), ScopesOver(ParamReqPaths))

SpecParams == InitParams /\ [][NextRouter]_vars

-----------------------------------------------------------------------------
CloseCodes == {0, NORMAL_CLOSURE, GOING_AWAY}

CloseReasons == {MISSING, "bye"}

SendHelperArgs ==
    {<<"text", "hi">>, <<"bytes", "by">>} \cup {<<"json", d>> : d \in JsonValues}

NextWS ==
    \/ \E t \in Tasks : Receive(t)
    \/ \E t \in Tasks, msg \in OutMsgs : Send(t, msg)
    \/ \E t \in Tasks : Accept(t)
    \/ \E t \in Tasks, code \in CloseCodes, reason \in CloseReasons : Close(t, code, reason)
    \/ \E t \in Tasks, c \in SendHelperArgs : SendHelper(t, c[1], c[2])
    \/ \E t \in Tasks, kind \in {"text", "bytes", "json"} : ReceiveHelper(t, kind)
    \/ \E t \in Tasks, msg \in InMsgs : GatewayDeliver(t, msg)

\* A fresh WebSocket (requests.py, WebSocket.__init__) handed to the endpoint of a
\* matching WebSocket route, which n tasks use.
InitWS(n) ==
    /\ client_state = "connecting"
    /\ application_state = "connecting"
    /\ sent = <<>>
    /\ consumed = 0
    /\ ntasks = n
    /\ task = [t \in 1..n |-> Idle]
    /\ last = NoCall
    /\ routes = <<MakeRoute("websocket", <<"/", "a">>, {})>>
    /\ docs = FALSE
    /\ scope = [type |-> "websocket", method |-> "-", path |-> <<"/", "a", "/">>,
                path_params |-> <<>>, endpoint |-> 1, requested |-> <<"/", "a">>]
    /\ phase = "endpoint"
    /\ called = 1
    /\ invoked = <<1>>
    /\ escaped = "none"
    /\ kwargs = <<>>
    /\ lifespan = NoLifespan
    /\ request = NoRequest
    /\ pipeline = NoPipeline
    /\ registry = NoRegistry
    /\ response = NoResponse
    /\ wsendpoint = NoEndpoint
    /\ readers = NoReaders

Init == InitWS(1)

Spec == Init /\ [][NextWS]_vars

InitConc == InitWS(2)

SpecConc == InitConc /\ [][NextWS]_vars

-----------------------------------------------------------------------------
(* Properties of the WebSocket state machine.                              *)

\* enums.WSState: the value of each member, which is also its place in the order
\* connecting, connected, disconnected.
StateRank(st) ==
    CASE st = "connecting" -> 0
      [] st = "connected" -> 1
      [] OTHER -> 2

AlreadyClosed == "RuntimeError: Websocket has already been closed"

AlreadyDisconnected == "RuntimeError: Disconnect message has already been received"

\* C1: a connection starts in (connecting, connecting), and in every step of every
\* sequence of receive/send/accept/close calls and inbound messages each of
\* client_state and application_state keeps its value or moves forward in the
\* order connecting, connected, disconnected.
C1_StateMonotonicity ==
    /\ client_state = "connecting" /\ application_state = "connecting"
    /\ [][/\ StateRank(client_state') >= StateRank(client_state)
          /\ StateRank(application_state') >= StateRank(application_state)]_vars

C1_Witness ==
    /\ client_state = "disconnected"
    /\ application_state = "disconnected"
    /\ Len(sent) = 3

\* C2: receive() entered with client_state connecting or connected follows the
\* table: connecting + connect gives connected, connected + receive stays
\* connected, connected + disconnect gives disconnected, the message being
\* returned in these three cases; any other inbound type raises
\* UnexpectedASGIMessageType and leaves client_state unchanged; application_state
\* is not changed by receive().
C2_ReceiveTable ==
    (last.op = "receive" /\ last.branch \in {"connecting", "connected"}) =>
        /\ last.consumed = 1
        /\ last.post_app = last.pre_app
        /\ application_state = last.pre_app
        /\ client_state = last.post_client
        /\ CASE last.branch = "connecting" /\ last.inmsg.type = "websocket.connect" ->
                  last.raised = "none" /\ last.post_client = "connected"
             [] last.branch = "connected" /\ last.inmsg.type = "websocket.receive" ->
                  last.raised = "none" /\ last.post_client = "connected"
             [] last.branch = "connected" /\ last.inmsg.type = "websocket.disconnect" ->
                  last.raised = "none" /\ last.post_client = "disconnected"
             [] OTHER ->
                  /\ last.raised = "UnexpectedASGIMessageType"
                  /\ last.post_client = last.branch

C2_Witness ==
    /\ last.op = "receive"
    /\ last.branch = "connected"
    /\ last.inmsg.type = "websocket.disconnect"
    /\ last.raised = "none"
    /\ client_state = "disconnected"

\* C3: send(msg) entered with application_state connecting or connected follows
\* the table: connecting + accept gives connected, connecting + close gives
\* disconnected, connected + send stays connected, connected + close gives
\* disconnected, the message being handed to the gateway exactly once in these
\* cases; any other type raises UnexpectedASGIMessageType, hands nothing to the
\* gateway and leaves application_state unchanged.
C3_SendTable ==
    (last.op = "send" /\ last.pre_app \in {"connecting", "connected"}) =>
        /\ application_state = last.post_app
        /\ last.post_client = last.pre_client
        /\ CASE last.pre_app = "connecting" /\ last.outmsg.type = "websocket.accept" ->
                  last.raised = "none" /\ last.post_app = "connected"
             [] last.pre_app = "connecting" /\ last.outmsg.type = "websocket.close" ->
                  last.raised = "none" /\ last.post_app = "disconnected"
             [] last.pre_app = "connected" /\ last.outmsg.type = "websocket.send" ->
                  last.raised = "none" /\ last.post_app = "connected"
             [] last.pre_app = "connected" /\ last.outmsg.type = "websocket.close" ->
                  last.raised = "none" /\ last.post_app = "disconnected"
             [] OTHER ->
                  /\ last.raised = "UnexpectedASGIMessageType"
                  /\ last.post_app = last.pre_app
        /\ IF last.raised = "none"
           THEN /\ last.fwd = <<last.outmsg>>
                /\ sent # <<>> /\ sent[Len(sent)] = last.outmsg
           ELSE last.fwd = <<>>

C3_Witness ==
    /\ last.op = "send"
    /\ last.pre_app = "connected"
    /\ last.outmsg.type = "websocket.close"
    /\ last.fwd = <<last.outmsg>>
    /\ application_state = "disconnected"

SendOps == {"send", "send_text", "send_bytes", "send_json", "close"}

\* At most one websocket.close is handed to the gateway, and nothing after it.
CloseIsFinal ==
    \A i \in 1..Len(sent) : sent[i].type = "websocket.close" => i = Len(sent)

\* C4 as stated: once application_state is disconnected, send, send_text,
\* send_bytes, send_json, accept and close all fail with "already closed" and
\* forward nothing; at most one websocket.close is forwarded and nothing after
\* it, also with two tasks interleaving.
C4_Original ==
    /\ (last.op \in SendOps \cup {"accept"} /\ last.pre_app = "disconnected") =>
           last.raised = AlreadyClosed /\ last.fwd = <<>>
    /\ CloseIsFinal

\* C4, amended: as stated for send, send_text, send_bytes, send_json and close;
\* accept on a closed connection also fails and forwards nothing, with "already
\* closed" unless it was still waiting for the connect message and the message it
\* consumed is of another type, which raises UnexpectedASGIMessageType.
C4_ClosedStaysClosed ==
    /\ (last.op \in SendOps /\ last.pre_app = "disconnected") =>
           last.raised = AlreadyClosed /\ last.fwd = <<>> /\ last.consumed = 0
    /\ (last.op = "accept" /\ last.pre_app = "disconnected") =>
           /\ last.fwd = <<>>
           /\ IF last.branch = "connecting" /\ last.inmsg.type # "websocket.connect"
              THEN last.raised = "UnexpectedASGIMessageType"
              ELSE last.raised = AlreadyClosed
    /\ CloseIsFinal

C4_Witness ==
    /\ last.op = "accept"
    /\ last.pre_app = "disconnected"
    /\ last.consumed = 1
    /\ last.raised = AlreadyClosed
    /\ \E i \in 1..Len(sent) : sent[i].type = "websocket.close"
    /\ \E t \in Tasks : task[t].pc = "receiving"

\* C5: receive() called with client_state disconnected raises the "disconnect
\* already received" error, consumes no inbound message and changes neither
\* state.
C5_ReceiveAfterDisconnect ==
    (last.op = "receive" /\ last.pre_client = "disconnected") =>
        /\ last.raised = AlreadyDisconnected
        /\ last.consumed = 0
        /\ last.inmsg = NoMsg
        /\ last.post_client = "disconnected" /\ client_state = "disconnected"
        /\ last.post_app = last.pre_app /\ application_state = last.pre_app

C5_Witness ==
    /\ last.op = "receive"
    /\ last.pre_client = "disconnected"
    /\ last.raised = AlreadyDisconnected
    /\ consumed > 0

\* What C6 says of the messages accept() consumes and forwards: called with
\* client_state connecting it consumes exactly one inbound message, and forwards
\* websocket.accept only after a websocket.connect was consumed; called later it
\* consumes none; nothing is handed to the gateway while accept() waits.
AcceptDrainsFirst ==
    /\ [](last.op = "accept" =>
            /\ last.branch = "connecting" =>
                 /\ last.consumed = 1
                 /\ last.fwd # <<>> => last.inmsg.type = "websocket.connect"
            /\ last.branch # "connecting" => last.consumed = 0 /\ last.inmsg = NoMsg
            /\ last.fwd \in {<<>>, <<AcceptMsg>>}
            /\ last.raised = "none" <=> last.fwd = <<AcceptMsg>>)
    /\ [][(task'[1].pc = "receiving" /\ task'[1].op = "accept") => sent' = sent]_vars

\* C6 as stated: AcceptDrainsFirst, and after a successful accept() both
\* client_state and application_state are connected.
C6_Original ==
    /\ AcceptDrainsFirst
    /\ [](last.op = "accept" /\ last.raised = "none" =>
            /\ last.post_client = "connected" /\ client_state = "connected"
            /\ last.post_app = "connected" /\ application_state = "connected")

\* C6, amended: AcceptDrainsFirst, and after a successful accept()
\* application_state is connected and client_state is connected, unless the
\* websocket.disconnect had been received before the call: then client_state
\* stays disconnected.
C6_AcceptDrainsConnect ==
    /\ AcceptDrainsFirst
    /\ [](last.op = "accept" /\ last.raised = "none" =>
            /\ last.post_app = "connected" /\ application_state = "connected"
            /\ client_state = last.post_client
            /\ last.post_client =
                   IF last.pre_client = "disconnected" THEN "disconnected" ELSE "connected")

C6_Witness ==
    /\ last.op = "accept"
    /\ last.branch = "connecting"
    /\ last.consumed = 1
    /\ last.raised = "none"
    /\ client_state = "connected" /\ application_state = "connected"
    /\ sent = <<AcceptMsg>>

\* The payload receive_text / receive_bytes / receive_json asks for, when the
\* message carries it.
RequestedPayload(op, msg) ==
    CASE op = "receive_bytes" -> msg.bytes
      [] op = "receive_text" -> msg.text
      [] OTHER -> IF msg.text = Absent THEN Absent ELSE JsonLoads(msg.text).value

ReceiveHelperOps == {"receive_text", "receive_bytes", "receive_json"}

\* C7: a receive helper called with application_state connected (the connect
\* message received, the disconnect not yet) returns the requested payload of an
\* inbound websocket.receive that carries it, and raises WebSocketDisconnect on
\* an inbound websocket.disconnect; called with application_state not connected
\* it fails without consuming a message.
C7_ReceiveHelpers ==
    last.op \in ReceiveHelperOps =>
        /\ (/\ last.pre_app = "connected" /\ last.branch = "connected"
            /\ last.inmsg.type = "websocket.receive"
            /\ RequestedPayload(last.op, last.inmsg) # Absent) =>
               last.raised = "none" /\ last.ret = RequestedPayload(last.op, last.inmsg)
        /\ (/\ last.pre_app = "connected" /\ last.branch = "connected"
            /\ last.inmsg.type = "websocket.disconnect") =>
               last.raised = "WebSocketDisconnect"
        /\ last.pre_app # "connected" =>
               last.raised = "WebSocketDisconnected" /\ last.consumed = 0

-----------------------------------------------------------------------------
(* Properties of the dispatch.                                             *)

PathMatches(i) == Route_match(routes[i], scope.type, NormalizePath(scope.path)).match

FullMatches(i) ==
    PathMatches(i) /\ (scope.type = "http" => scope.method \in routes[i].methods)

Answered(status, body) == sent = Response_call(status, body)

\* C8: an HTTP dispatch answers 405 "Method Not Allowed" exactly when no route
\* matches path and method and some HTTP route matches the path; when some route
\* matches both, such a route is invoked and no 405 is sent, whatever an
\* earlier-registered route of the same path allows.
C8_MethodNotAllowed ==
    (phase = "done" /\ scope.type = "http") =>
        /\ Answered(405, "Method Not Allowed") <=>
               /\ ~\E i \in 1..Len(routes) : FullMatches(i)
               /\ \E i \in 1..Len(routes) : PathMatches(i)
        /\ (\E i \in 1..Len(routes) : FullMatches(i)) =>
               /\ \E i \in 1..Len(routes) : FullMatches(i) /\ invoked = <<i>>
               /\ \A k \in 1..Len(sent) : sent[k].status # 405

\* C9: a dispatch invokes at most one route callback, never that of a route
\* registered after one that fully matches the request, and the route it hands the
\* request to is the first registered route of the connection's kind whose path
\* matches: a function of the registration order, the method and the path.
C9_RegistrationOrder ==
    phase # "new" =>
        /\ Len(invoked) <= 1
        /\ \A i \in 1..Len(routes) :
               FullMatches(i) => \A k \in 1..Len(invoked) : invoked[k] <= i
        /\ \A k \in 1..Len(invoked) : invoked[k] = called /\ FullMatches(called)
        /\ IF \E i \in 1..Len(routes) : PathMatches(i)
           THEN /\ called \in 1..Len(routes)
                /\ PathMatches(called)
                /\ \A j \in 1..(called - 1) : ~PathMatches(j)
           ELSE called = 0

C9_Witness ==
    /\ phase = "done"
    /\ Len(routes) = 2
    /\ FullMatches(1) /\ FullMatches(2)
    /\ routes[1] # routes[2]
    /\ invoked = <<1>>

\* The reserved path: GET /openapi.json/ is answered with the OpenAPI document
\* when the application has one.
ServesDocs == docs /\ scope.type = "http" /\ scope.path = <<"/", "openapi.json", "/">>

\* C10: when no route of the connection's kind matches the path (and the request
\* is not for the OpenAPI document), an HTTP dispatch sends a 404 response, a
\* WebSocket dispatch forwards exactly one websocket.close with code 1000 and an
\* empty reason and leaves application_state disconnected, and no route callback
\* is invoked.
C10_NoMatch ==
    (phase # "new" /\ ~ServesDocs /\ ~\E i \in 1..Len(routes) : PathMatches(i)) =>
        /\ invoked = <<>>
        /\ escaped = "none"
        /\ scope.type = "http" => Answered(404, "None")
        /\ scope.type = "websocket" =>
               /\ sent = <<CloseMsg(NORMAL_CLOSURE, "")>>
               /\ application_state = "disconnected"

\* C11: every dispatch of an HTTP scope hands to the gateway exactly one
\* http.response.start followed by exactly one http.response.body, and nothing
\* else, whether a route fully matches, only the path matches, or nothing matches.
C11_OneResponse ==
    (phase = "done" /\ scope.type = "http") =>
        /\ Len(sent) = 2
        /\ sent[1].type = "http.response.start"
        /\ sent[2].type = "http.response.body"

-----------------------------------------------------------------------------
(* Properties of path parameters.                                          *)

\* The positions of the parameters in the compiled pattern of route i.
ParamPositions(i) ==
    {k \in 1..Len(routes[i].path_data) : routes[i].path_data[k].extra # <<>>}

\* The segments of the normalised request path.
ClientPath == Split(NormalizePath(scope.requested))

\* Route i is of the connection's kind, has as many segments as the request, and
\* the converter of one of its parameters fails on its segment: the regex does not
\* match, or convert raises.
ConverterRejects(i) ==
    /\ routes[i].kind = scope.type
    /\ Len(routes[i].path_data) = Len(ClientPath)
    /\ \E k \in ParamPositions(i) :
           \/ ~FullMatch(routes[i].path_data[k].regex, ClientPath[k])
           \/ Converter_convert(routes[i].path_data[k].extra[1], ClientPath[k]).raised # "none"

\* C12: when a segment fails the converter of a parameter of a route, that route
\* does not match: it is not called, no exception of the converter escapes the
\* dispatch, the routes registered after it are still tried, and when no route
\* matches, path_params is not written and an HTTP request gets 404.
C12_ConvertFailureIsNoMatch ==
    (phase = "done" /\ \E i \in 1..Len(routes) : ConverterRejects(i)) =>
        /\ \A i \in 1..Len(routes) : ConverterRejects(i) => called # i
        /\ escaped \in {"none", "TypeError", "AssertionError"}
        /\ (\E j \in 1..Len(routes) : PathMatches(j)) =>
               /\ called \in 1..Len(routes)
               /\ PathMatches(called)
               /\ \A j \in 1..(called - 1) : ~PathMatches(j)
        /\ (~\E j \in 1..Len(routes) : PathMatches(j)) =>
               /\ scope.path_params = <<>>
               /\ invoked = <<>>
               /\ scope.type = "http" => Answered(404, "None")

\* The request path is the pattern of route i with a string put in the place of
\* each parameter; Decodes says which strings may be put there.
Substitution(i, Decodes(_, _)) ==
    /\ routes[i].kind = "http" /\ scope.type = "http"
    /\ Len(routes[i].path_data) = Len(ClientPath)
    /\ \A k \in 1..Len(ClientPath) :
           IF k \in ParamPositions(i)
           THEN Decodes(routes[i].path_data[k].extra[1], ClientPath[k])
           ELSE routes[i].path_data[k].regex = ReEscape(ClientPath[k])
    /\ \A j \in 1..(i - 1) :
           LET m == Route_match(routes[j], scope.type, NormalizePath(scope.requested))
           IN  ~m.match /\ m.raised = "none"

\* The path_params the claim expects of route i: each parameter name with the
\* value its converter decodes from the segment.
ExpectedParams(i) ==
    {<<routes[i].path_data[k].extra[2],
       Converter_convert(routes[i].path_data[k].extra[1], ClientPath[k]).value>> :
        k \in ParamPositions(i)}

\* What the round trip promises for route i: the route is the one called,
\* path_params holds exactly the expected pairs, and, the method being allowed,
\* the callback is invoked with exactly these keyword arguments.
RoundTrip(i) ==
    /\ called = i
    /\ escaped \in {"none", "TypeError"}
    /\ Len(scope.path_params) = Cardinality(ParamPositions(i))
    /\ {scope.path_params[k] : k \in 1..Len(scope.path_params)} = ExpectedParams(i)
    /\ scope.method \in routes[i].methods =>
           /\ invoked = <<i>>
           /\ kwargs = scope.path_params

ConvertDecodes(converter, s) == Converter_convert(converter, s).raised = "none"

RegexAndConvertDecode(converter, s) ==
    /\ FullMatch(Converter_regex(converter), s)
    /\ Converter_convert(converter, s).raised = "none"

\* C13 as stated: a pattern of literal segments matched against itself is a full
\* match with empty path_params, and for every string that the convert method of
\* the parameter's converter decodes, the substituted path records the decoded
\* value under the parameter's name and the callback gets exactly these values.
C13_Original ==
    phase = "done" =>
        \A i \in 1..Len(routes) : Substitution(i, ConvertDecodes) => RoundTrip(i)

\* C13, amended: the same for every string that matches the regex of the
\* parameter's converter in full and that its convert method decodes.
C13_PathRoundTrip ==
    phase = "done" =>
        \A i \in 1..Len(routes) : Substitution(i, RegexAndConvertDecode) => RoundTrip(i)

C13_Witness ==
    /\ phase = "done"
    /\ invoked = <<1>>
    /\ Substitution(1, RegexAndConvertDecode)
    /\ kwargs = << <<"id", <<"int", 12>> >>, <<"x", <<"float", 15, 1>> >> >>
    /\ scope.path_params = kwargs

\* What a dispatch of path q does: the outcome of Router.__call__ and the
\* path_params it leaves in the scope.
DispatchOutcome(q, cb) ==
    LET r == Router_call(routes, scope.type, scope.method, NormalizePath(q), docs,
                         "connecting", cb)
    IN  [result |-> r,
         path |-> NormalizePath(q),
         path_params |-> IF r.called # 0
                         THEN Route_match(routes[r.called], scope.type, NormalizePath(q)).params
                         ELSE <<>>]

EndsWithSlash(q) == q # <<>> /\ q[Len(q)] = "/"

-----------------------------------------------------------------------------
(* Lifespan (routing.py, Router.lifespan).  The lifespan context is the    *)
(* application's: ctx.acquire is what __aenter__ does ("raise", "None", or *)
(* "mapping": it yields the mapping ctx.yields), ctx.release what          *)
(* __aexit__ does ("ok": it returns and lets a pending exception through,  *)
(* or "raise").  A mapping is a set of <<key, value>> pairs; has_state     *)
(* says whether the scope has a "state" key, state is its value.           *)

\* Mutant of DictUpdate: keys already present keep their value.
DictUpdate_keeps_old(d, u) ==
    d \cup {q \in u : \A r \in d : r[1] # q[1]}

\* dict.update: scope["state"].update(maybe_state)
DictUpdate(d, u) ==
    {q \in d : \A r \in u : r[1] # q[1]} \cup u

LifespanStep(pc, event) ==
    [lifespan EXCEPT !.pc = pc, !.events = Append(@, event)]

LifespanSend(ls, type) ==
    [ls EXCEPT !.sent = Append(@, type), !.events = Append(@, "send " \o type)]

\* Mutant of LifespanStartup: the context is entered without awaiting a message.
LifespanStartup_no_receive ==
    /\ lifespan.pc = "start"
    /\ lifespan' = [lifespan EXCEPT !.pc = "enter"]
    /\ UNCHANGED <<wsvars, routervars, requestvars, appvars, endpointvars>>

\* `started = False; await receive()`
LifespanStartup ==
    /\ lifespan.pc = "start"
    /\ lifespan' = [LifespanStep("enter", "receive") EXCEPT !.consumed = @ + 1]
    /\ UNCHANGED <<wsvars, routervars, requestvars, appvars, endpointvars>>

\* `async with self.lifespan_context(scope.get("app")) as maybe_state:` and the
\* handling of maybe_state, up to the await of send.
LifespanAcquire ==
    /\ lifespan.pc = "enter"
    /\ lifespan' =
         IF lifespan.ctx.acquire = "raise"
         THEN [LifespanStep("except", "acquire") EXCEPT !.pending = "AcquireError"]
         ELSE IF lifespan.ctx.acquire = "None"
         THEN LifespanStep("send_startup", "acquire")
         ELSE IF ~lifespan.has_state
         THEN [LifespanStep("exit", "acquire") EXCEPT !.pending = "RuntimeError"]
         ELSE [LifespanStep("send_startup", "acquire") EXCEPT
                  !.state = DictUpdate(@, lifespan.ctx.yields)]
    /\ UNCHANGED <<wsvars, routervars, requestvars, appvars, endpointvars>>

\* `await send({"type": "lifespan.startup.complete"}); started = True`
LifespanStartupComplete ==
    /\ lifespan.pc = "send_startup"
    /\ lifespan' = [LifespanSend(lifespan, "lifespan.startup.complete") EXCEPT
                       !.started = TRUE, !.pc = "wait_shutdown"]
    /\ UNCHANGED <<wsvars, routervars, requestvars, appvars, endpointvars>>

\* the second `await receive()`
LifespanShutdown ==
    /\ lifespan.pc = "wait_shutdown"
    /\ lifespan' = [LifespanStep("exit", "receive") EXCEPT !.consumed = @ + 1]
    /\ UNCHANGED <<wsvars, routervars, requestvars, appvars, endpointvars>>

\* Leaving the `async with` block: __aexit__ runs, with the pending exception
\* if the block raised.
LifespanRelease ==
    /\ lifespan.pc = "exit"
    /\ lifespan' =
         IF lifespan.ctx.release = "raise"
         THEN [LifespanStep("except", "release") EXCEPT !.pending = "ReleaseError"]
         ELSE IF lifespan.pending # "none"
         THEN LifespanStep("except", "release")
         ELSE LifespanStep("else", "release")
    /\ UNCHANGED <<wsvars, routervars, requestvars, appvars, endpointvars>>

\* Mutant of LifespanExcept: started is not looked at.
LifespanExcept_startup_only ==
    /\ lifespan.pc = "except"
    /\ lifespan' = [LifespanSend(lifespan, "lifespan.startup.failed") EXCEPT
                       !.raised = lifespan.pending, !.pc = "done"]
    /\ UNCHANGED <<wsvars, routervars, requestvars, appvars, endpointvars>>

\* `except Exception:` send the failed message of the phase, then `raise`
LifespanExcept ==
    /\ lifespan.pc = "except"
    /\ lifespan' =
         [LifespanSend(lifespan, IF lifespan.started THEN "lifespan.shutdown.failed"
                                 ELSE "lifespan.startup.failed") EXCEPT
             !.raised = lifespan.pending, !.pc = "done"]
    /\ UNCHANGED <<wsvars, routervars, requestvars, appvars, endpointvars>>

\* `else: await send({"type": "lifespan.shutdown.complete"})`
LifespanElse ==
    /\ lifespan.pc = "else"
    /\ lifespan' = [LifespanSend(lifespan, "lifespan.shutdown.complete") EXCEPT !.pc = "done"]
    /\ UNCHANGED <<wsvars, routervars, requestvars, appvars, endpointvars>>

NextLifespan ==
    \/ LifespanStartup
    \/ LifespanAcquire
    \/ LifespanStartupComplete
    \/ LifespanShutdown
    \/ LifespanRelease
    \/ LifespanExcept
    \/ LifespanElse

\* The mappings a lifespan context may yield and a gateway may provide as
\* scope["state"].
Mappings ==
    {{}, {<<"db", 1>>}, {<<"db", 1>>, <<"cache", 2>>}, {<<"db", 0>>}, {<<"x", 9>>}}

Contexts ==
    [acquire : {"raise", "None"}, yields : {{}}, release : {"ok", "raise"}]
    \cup [acquire : {"mapping"}, yields : Mappings, release : {"ok", "raise"}]

\* A lifespan scope arrives: Application.__call__ calls Router.lifespan.
InitLifespan ==
    /\ client_state = "connecting"
    /\ application_state = "connecting"
    /\ sent = <<>>
    /\ consumed = 0
    /\ ntasks = 1
    /\ task = [t \in 1..1 |-> Idle]
    /\ last = NoCall
    /\ routes = <<>>
    /\ docs = FALSE
    /\ scope = [type |-> "lifespan", method |-> "-", path |-> <<>>, path_params |-> <<>>,
                endpoint |-> 0, requested |-> <<>>]
    /\ phase = "lifespan"
    /\ called = 0
    /\ invoked = <<>>
    /\ escaped = "none"
    /\ kwargs = Absent
    /\ request = NoRequest
    /\ pipeline = NoPipeline
    /\ registry = NoRegistry
    /\ response = NoResponse
    /\ wsendpoint = NoEndpoint
    /\ readers = NoReaders
    /\ \E ctx \in Contexts, has \in BOOLEAN, st \in Mappings :
           lifespan = [pc |-> "start", ctx |-> ctx, has_state |-> has,
                       state0 |-> IF has THEN st ELSE {}, state |-> IF has THEN st ELSE {},
                       started |-> FALSE, pending |-> "none", raised |-> "none",
                       consumed |-> 0, sent |-> <<>>, events |-> <<>>]

SpecLifespan == InitLifespan /\ [][NextLifespan]_vars

-----------------------------------------------------------------------------
(* Properties of the lifespan.                                             *)

IsPrefix(s, q) == Len(s) <= Len(q) /\ s = SubSeq(q, 1, Len(s))

\* The run meets no failure: acquire and release succeed, and a yielded mapping
\* finds a "state" key in the scope.
LifespanSucceeds ==
    /\ lifespan.ctx.acquire # "raise"
    /\ lifespan.ctx.release = "ok"
    /\ lifespan.ctx.acquire = "mapping" => lifespan.has_state

SuccessfulRun ==
    <<"receive", "acquire", "send lifespan.startup.complete", "receive", "release",
      "send lifespan.shutdown.complete">>

\* C15: on a successful run the events happen in this order and no other: one
\* inbound message is consumed, acquire is entered, lifespan.startup.complete is
\* sent, the second inbound message is awaited, release runs,
\* lifespan.shutdown.complete is sent; exactly these two messages are sent.
C15_LifespanOrder ==
    (lifespan.pc # "none" /\ LifespanSucceeds) =>
        /\ IsPrefix(lifespan.events, SuccessfulRun)
        /\ lifespan.consumed =
               Cardinality({k \in 1..Len(lifespan.events) : lifespan.events[k] = "receive"})
        /\ lifespan.pc = "done" =>
               /\ lifespan.events = SuccessfulRun
               /\ lifespan.sent = <<"lifespan.startup.complete", "lifespan.shutdown.complete">>
               /\ lifespan.consumed = 2
               /\ lifespan.raised = "none"

C15_Witness ==
    /\ lifespan.pc = "done"
    /\ LifespanSucceeds
    /\ lifespan.ctx.yields = {<<"db", 1>>}
    /\ lifespan.events = SuccessfulRun

Sent(type) == \E k \in 1..Len(lifespan.sent) : lifespan.sent[k] = type

\* C16: if acquire raises, exactly one message, lifespan.startup.failed, is sent
\* and the exception is re-raised; if release raises after
\* lifespan.startup.complete was sent, lifespan.shutdown.failed is sent instead of
\* lifespan.shutdown.complete and the exception is re-raised; a complete and a
\* failed message of the same phase are never both sent.
C16_LifespanFailures ==
    lifespan.pc # "none" =>
        /\ (lifespan.pc = "done" /\ lifespan.ctx.acquire = "raise") =>
               /\ lifespan.sent = <<"lifespan.startup.failed">>
               /\ lifespan.raised = "AcquireError"
        /\ (lifespan.pc = "done" /\ lifespan.ctx.release = "raise"
                /\ Sent("lifespan.startup.complete")) =>
               /\ lifespan.sent = <<"lifespan.startup.complete", "lifespan.shutdown.failed">>
               /\ lifespan.raised = "ReleaseError"
        /\ ~(Sent("lifespan.startup.complete") /\ Sent("lifespan.startup.failed"))
        /\ ~(Sent("lifespan.shutdown.complete") /\ Sent("lifespan.shutdown.failed"))

C16_Witness ==
    /\ lifespan.pc = "done"
    /\ lifespan.ctx.release = "raise"
    /\ lifespan.sent = <<"lifespan.startup.complete", "lifespan.shutdown.failed">>
    /\ lifespan.raised = "ReleaseError"

MaxHttpInbound == 3

MaxCalls == 3

\* Byte strings are sequences of byte values.
Bodies == {<<>>, <<1>>, <<2>>}

\* The inbound messages of an HTTP connection.  A message without a "body" or
\* a "more_body" key reads as b"" and False (message.get) and is the message
\* that carries these values.
HttpRequestMsgs == [type : {"http.request"}, body : Bodies, more_body : BOOLEAN]

HttpDisconnect == [type |-> "http.disconnect", body |-> <<>>, more_body |-> FALSE]

HttpMsgs == HttpRequestMsgs \cup {HttpDisconnect}

\* b"".join(chunks)
RECURSIVE BytesJoin(_)
BytesJoin(chunks) ==
    IF chunks = <<>> THEN <<>> ELSE Head(chunks) \o BytesJoin(Tail(chunks))

\* One iteration of the loop of Request.stream with its message ignoring
\* more_body: the first http.request ends the stream.
StreamMessage_ignores_more_body(req, items, message) ==
    IF message.type = "http.request"
    THEN [req |-> [req EXCEPT !.stream_consumed = TRUE],
          items |-> IF Len(message.body) > 0 THEN Append(items, message.body) ELSE items,
          raised |-> "none"]
    ELSE [req |-> [req EXCEPT !.is_disconnected = TRUE], items |-> items,
          raised |-> "ClientDisconnect"]

\* The body of the loop of Request.stream for one received message.
StreamMessage(req, items, message) ==
    IF message.type = "http.request"
    THEN [req |-> IF ~message.more_body THEN [req EXCEPT !.stream_consumed = TRUE] ELSE req,
          items |-> IF Len(message.body) > 0 THEN Append(items, message.body) ELSE items,
          raised |-> "none"]
    ELSE IF message.type = "http.disconnect"
    THEN [req |-> [req EXCEPT !.is_disconnected = TRUE], items |-> items,
          raised |-> "ClientDisconnect"]
    ELSE [req |-> req, items |-> items, raised |-> "none"]

\* while not self._stream_consumed: ... ; yield b"".  The result is the list of
\* the items the generator yields when it is iterated to its end, and how it
\* ends: "none" (exhausted), an exception, or "blocked" when receive() waits
\* for a message the gateway has not delivered.
RECURSIVE StreamLoop(_, _)
StreamLoop(req, items) ==
    IF req.stream_consumed
    THEN [req |-> req, items |-> Append(items, <<>>), raised |-> "none"]
    ELSE IF req.consumed >= Len(req.inbox)
    THEN [req |-> req, items |-> items, raised |-> "blocked"]
    ELSE LET message == req.inbox[req.consumed + 1]
             step == StreamMessage([req EXCEPT !.consumed = @ + 1], items, message)
         IN  IF step.raised # "none" THEN step ELSE StreamLoop(step.req, step.items)

\* Request.stream, the undecorated generator, iterated to its end.
Request_stream(req) ==
    IF req.stream_consumed
    THEN [req |-> req, items |-> <<>>, raised |-> "RuntimeError"]
    ELSE StreamLoop(req, <<>>)

\* cached_gen applied to Request.stream: the generator object is created on
\* every call and iterated only when the cache has no entry "stream"; the
\* wrapper then yields the cached items.
cached_gen(req) ==
    IF ~req.has_stream
    THEN LET obj == Request_stream(req)
         IN  IF obj.raised # "none"
             THEN [req |-> obj.req, items |-> <<>>, raised |-> obj.raised]
             ELSE [req |-> [obj.req EXCEPT !.has_stream = TRUE, !.stream_cache = obj.items],
                   items |-> obj.items, raised |-> "none"]
    ELSE [req |-> req, items |-> req.stream_cache, raised |-> "none"]

\* Request.body, the undecorated coroutine.
Request_body(req) ==
    LET chunks == cached_gen(req)
    IN  [req |-> chunks.req,
         result |-> IF chunks.raised = "none" THEN BytesJoin(chunks.items) ELSE <<>>,
         raised |-> chunks.raised]

\* cached_coro applied to Request.body.
cached_coro(req) ==
    IF ~req.has_body
    THEN LET b == Request_body(req)
         IN  IF b.raised # "none"
             THEN b
             ELSE [b EXCEPT !.req = [b.req EXCEPT !.has_body = TRUE, !.body_cache = b.result]]
    ELSE [req |-> req, result |-> req.body_cache, raised |-> "none"]

\* What the gateway may deliver next: http.request messages until one has
\* more_body false, and after it, or after a disconnect, only http.disconnect.
GatewayMayDeliver(inbox, m) ==
    IF inbox = <<>>
    THEN TRUE
    ELSE \/ inbox[Len(inbox)].type = "http.request" /\ inbox[Len(inbox)].more_body
         \/ m = HttpDisconnect

\* The record of one finished call on the request.
RequestCall(op, before, req, items, result, raised) ==
    [op |-> op, items |-> items, result |-> result, raised |-> raised,
     before |-> before.consumed, after |-> req.consumed]

\* The gateway delivers a message.
HttpDeliver(m) ==
    /\ request.pc = "ready"
    /\ Len(request.inbox) < MaxHttpInbound
    /\ GatewayMayDeliver(request.inbox, m)
    /\ request' = [request EXCEPT !.inbox = Append(@, m)]
    /\ UNCHANGED <<wsvars, routervars, lifespanvars, appvars, endpointvars>>

\* The endpoint iterates request.stream() to its end; the call finishes when
\* the messages it waits for have arrived.
CallStream ==
    /\ request.pc = "ready"
    /\ Len(request.calls) < MaxCalls
    /\ LET r == cached_gen(request)
       IN  /\ r.raised # "blocked"
           /\ request' = [r.req EXCEPT !.calls =
                  Append(@, RequestCall("stream", request, r.req, r.items, <<>>, r.raised))]
    /\ UNCHANGED <<wsvars, routervars, lifespanvars, appvars, endpointvars>>

\* The endpoint awaits request.body().
CallBody ==
    /\ request.pc = "ready"
    /\ Len(request.calls) < MaxCalls
    /\ LET r == cached_coro(request)
       IN  /\ r.raised # "blocked"
           /\ request' = [r.req EXCEPT !.calls =
                  Append(@, RequestCall("body", request, r.req, <<>>, r.result, r.raised))]
    /\ UNCHANGED <<wsvars, routervars, lifespanvars, appvars, endpointvars>>

NextRequest ==
    \/ \E m \in HttpMsgs : HttpDeliver(m)
    \/ CallStream
    \/ CallBody

\* BaseRequest.__init__: nothing received, nothing cached.
InitRequest ==
    /\ client_state = "connecting"
    /\ application_state = "connecting"
    /\ sent = <<>>
    /\ consumed = 0
    /\ ntasks = 1
    /\ task = [t \in 1..1 |-> Idle]
    /\ last = NoCall
    /\ routes = <<>>
    /\ docs = FALSE
    /\ scope = [type |-> "http", method |-> "POST", path |-> <<>>, path_params |-> <<>>,
                endpoint |-> 0, requested |-> <<>>]
    /\ phase = "request"
    /\ called = 0
    /\ invoked = <<>>
    /\ escaped = "none"
    /\ kwargs = Absent
    /\ lifespan = NoLifespan
    /\ pipeline = NoPipeline
    /\ registry = NoRegistry
    /\ response = NoResponse
    /\ wsendpoint = NoEndpoint
    /\ readers = NoReaders
    /\ request = [pc |-> "ready", inbox |-> <<>>, consumed |-> 0,
                  stream_consumed |-> FALSE, is_disconnected |-> FALSE,
                  has_stream |-> FALSE, stream_cache |-> <<>>,
                  has_body |-> FALSE, body_cache |-> <<>>, calls |-> <<>>]

SpecRequest == InitRequest /\ [][NextRequest]_vars

\* ---------------------------------------------------------------------------
\* Properties of Request.stream and Request.body
\* ---------------------------------------------------------------------------

\* The index of the first inbound http.request message with more_body false,
\* 0 when there is none.
FirstFinal(inbox) ==
    LET finals == {i \in 1..Len(inbox) :
                      inbox[i].type = "http.request" /\ ~inbox[i].more_body}
    IN  IF finals = {} THEN 0 ELSE CHOOSE i \in finals : \A j \in finals : i <= j

\* The http.request messages among the first n inbound messages, in order.
RequestsUpTo(inbox, n) ==
    SelectSeq(SubSeq(inbox, 1, n), LAMBDA m : m.type = "http.request")

\* The body fields of a sequence of messages.
BodiesOf(msgs) == [i \in 1..Len(msgs) |-> msgs[i].body]

\* The concatenation of the body fields up to the first final message.
ExpectedBody(inbox) == BytesJoin(BodiesOf(RequestsUpTo(inbox, FirstFinal(inbox))))

\* The non-empty body chunks up to the first final message.
ExpectedChunks(inbox) ==
    SelectSeq(BodiesOf(RequestsUpTo(inbox, FirstFinal(inbox))), LAMBDA b : Len(b) > 0)

BodyCalls == {i \in 1..Len(request.calls) : request.calls[i].op = "body"}

StreamCalls == {i \in 1..Len(request.calls) : request.calls[i].op = "stream"}

Returned(i) == request.calls[i].raised = "none"

\* C18: a call of body() that returns gives the concatenation, in arrival
\* order, of the body fields of the http.request messages up to and including
\* the first one with more_body false; every later call of body() returns the
\* same bytes and consumes no inbound message.
C18_BodyCached ==
    request.pc = "ready" =>
        /\ \A i \in BodyCalls :
               Returned(i) =>
                   /\ FirstFinal(request.inbox) > 0
                   /\ request.calls[i].result = ExpectedBody(request.inbox)
                   /\ request.calls[i].after <= FirstFinal(request.inbox)
        /\ \A i \in BodyCalls : \A j \in BodyCalls :
               (i < j /\ Returned(i)) =>
                   /\ Returned(j)
                   /\ request.calls[j].result = request.calls[i].result
                   /\ request.calls[j].after = request.calls[j].before

\* body() has returned twice on a body of two non-empty chunks.
C18_Witness ==
    /\ request.pc = "ready"
    /\ FirstFinal(request.inbox) = 2
    /\ Len(ExpectedBody(request.inbox)) = 2
    /\ \E i \in BodyCalls : \E j \in BodyCalls :
           i < j /\ Returned(i) /\ Returned(j) /\ request.calls[i].after = 2

\* A call of stream() was iterated to its end before call j.
ConsumedBefore(j) == \E i \in StreamCalls : i < j /\ Returned(i)

\* C19: once the stream of a request has been consumed to completion, a
\* further call of stream() fails with RuntimeError and yields no chunk.
C19_StreamNotRestartable ==
    request.pc = "ready" =>
        \A j \in StreamCalls :
            ConsumedBefore(j) =>
                /\ request.calls[j].raised = "RuntimeError"
                /\ request.calls[j].items = <<>>

\* C20: a call of stream() that reads the body from the gateway and is
\* iterated to its end yields exactly the non-empty body chunks up to the first
\* message with more_body false, no further item, and consumes no message
\* after that one.
C20_StreamChunks ==
    request.pc = "ready" =>
        \A i \in StreamCalls :
            (Returned(i) /\ request.calls[i].after > request.calls[i].before) =>
                /\ request.calls[i].items = ExpectedChunks(request.inbox)
                /\ request.calls[i].after = FirstFinal(request.inbox)

\* The non-empty body chunks of the inbound messages a call received before the
\* message that ended it.
ChunksReceived(c) ==
    SelectSeq(BodiesOf(SubSeq(request.inbox, c.before + 1, c.after - 1)),
              LAMBDA b : Len(b) > 0)

\* C21: when http.disconnect arrives after k body chunks with more_body true
\* and before the final chunk, the consumer of stream() receives those chunks
\* and then ClientDisconnect; body() fails with ClientDisconnect and caches no
\* body.
C21_DisconnectMidStream ==
    request.pc = "ready" =>
        \A i \in 1..Len(request.calls) :
            request.calls[i].raised = "ClientDisconnect" =>
                /\ request.inbox[request.calls[i].after] = HttpDisconnect
                /\ ~request.has_body
                /\ request.calls[i].op = "stream" =>
                       request.calls[i].items = ChunksReceived(request.calls[i])

\* ---------------------------------------------------------------------------
\* Route.__call__ with a group, and the error hooks (routing.py 242-269,
\* state.py 32-40)
\* ---------------------------------------------------------------------------

\* The variables a specification about something else leaves at rest.
InitQuiet ==
    /\ client_state = "connecting"
    /\ application_state = "connecting"
    /\ sent = <<>>
    /\ consumed = 0
    /\ ntasks = 1
    /\ task = [t \in 1..1 |-> Idle]
    /\ last = NoCall
    /\ routes = <<>>
    /\ docs = FALSE
    /\ scope = [type |-> "http", method |-> "GET", path |-> <<>>, path_params |-> <<>>,
                endpoint |-> 0, requested |-> <<>>]
    /\ phase = "quiet"
    /\ called = 0
    /\ invoked = <<>>
    /\ escaped = "none"
    /\ kwargs = Absent

\* `await response(request)`: the two messages of the response are sent.
PipelineSend(p, status, body) ==
    [p EXCEPT !.pc = "called", !.sent = @ \o Response_call(status, body)]

\* State.on_route_error(request, e): _handle_route_error is scheduled as a task
\* and None is returned; `await` on None raises TypeError, in the except block
\* of Route.__call__, so the TypeError leaves Route.__call__.
State_on_route_error(p, error) ==
    [p EXCEPT !.pc = "called", !.tasks = @ + 1, !.error = error,
              !.events = Append(@, "State.on_route_error"), !.escaped = "TypeError"]

\* `response = await self.callback(*args, **path_params)` and what follows.
RouteCallback(p) ==
    LET q == [p EXCEPT !.args = Append(@, "request"), !.events = Append(@, "callback")]
    IN  IF q.cb = "raise" THEN State_on_route_error(q, "CallbackError")
        ELSE PipelineSend(q, 200, "ok")

\* Mutant of GroupCheck: a Response of group_check does not stop the route.
GroupCheck_ignores_response(p) ==
    LET q == [p EXCEPT !.args = Append(@, "group"), !.events = Append(@, "group_check")]
    IN  IF q.check = "raise" THEN State_on_route_error(q, "CheckError")
        ELSE RouteCallback(q)

\* Mutant of GroupCheck: the error pipeline is awaited and yields None when no
\* hook answers, so `if response is None` lets the request through.
GroupCheck_error_yields_none(p) ==
    LET q == [p EXCEPT !.args = Append(@, "group"), !.events = Append(@, "group_check")]
    IN  IF q.check = "raise"
        THEN RouteCallback([q EXCEPT !.error = "CheckError",
                                     !.events = Append(@, "State.on_route_error")])
        ELSE IF q.check = "Response" THEN PipelineSend(q, 403, "denied")
        ELSE RouteCallback(q)

\* `if self._group is not None`: the group is the first argument, group_check
\* runs, and the callback runs only when response is still None.
GroupCheck(p) ==
    LET q == [p EXCEPT !.args = Append(@, "group"), !.events = Append(@, "group_check")]
    IN  IF q.check = "raise" THEN State_on_route_error(q, "CheckError")
        ELSE IF q.check = "Response" THEN PipelineSend(q, 403, "denied")
        ELSE RouteCallback(q)

\* Route.__call__ on a request the route matched.
Route_call_pipeline(p) ==
    IF ~p.allowed THEN PipelineSend(p, 405, "Method Not Allowed")
    ELSE IF p.has_group THEN GroupCheck(p)
    ELSE RouteCallback(p)

\* State._handle_route_error, the scheduled task: the hooks are looked up as
\* on_error on the group and on the application.  Group and Application define
\* on_route_error, not on_error, so the lookup raises AttributeError unless a
\* subclass defines on_error; what a hook returns is not used.
State_handle_route_error(p) ==
    LET g == IF ~p.has_group THEN p
             ELSE IF p.group_on_error = "undefined"
             THEN [p EXCEPT !.task_raised = "AttributeError"]
             ELSE [p EXCEPT !.events = Append(@, "group.on_error")]
    IN  IF g.task_raised # "none" THEN g
        ELSE IF g.app_on_error = "undefined" THEN [g EXCEPT !.task_raised = "AttributeError"]
        ELSE [g EXCEPT !.events = Append(@, "app.on_error")]

\* The route's __call__ runs.
RouteCall ==
    /\ pipeline.pc = "new"
    /\ pipeline' = Route_call_pipeline(pipeline)
    /\ UNCHANGED <<wsvars, routervars, lifespanvars, requestvars, registry, response, endpointvars>>

\* The event loop runs the scheduled error task.
HandleRouteError ==
    /\ pipeline.pc = "called"
    /\ pipeline.tasks > 0
    /\ pipeline' = [State_handle_route_error(pipeline) EXCEPT !.pc = "handled", !.tasks = @ - 1]
    /\ UNCHANGED <<wsvars, routervars, lifespanvars, requestvars, registry, response, endpointvars>>

NextPipeline ==
    \/ RouteCall
    \/ HandleRouteError

\* A matched request: the route with or without a group, what group_check, the
\* callback and the hooks a subclass may define do, and the debug flag.
InitPipeline ==
    /\ InitQuiet
    /\ lifespan = NoLifespan
    /\ request = NoRequest
    /\ registry = NoRegistry
    /\ response = NoResponse
    /\ wsendpoint = NoEndpoint
    /\ readers = NoReaders
    /\ \E has_group \in BOOLEAN, allowed \in BOOLEAN, debug \in BOOLEAN,
          check \in {"None", "Response", "raise"}, cb \in {"Response", "raise"},
          gh \in {"undefined", "None", "Response"}, ah \in {"undefined", "None", "Response"} :
           pipeline = [pc |-> "new", has_group |-> has_group, allowed |-> allowed,
                       debug |-> debug, check |-> check, cb |-> cb,
                       group_on_error |-> gh, app_on_error |-> ah,
                       events |-> <<>>, args |-> <<>>, sent |-> <<>>, escaped |-> "none",
                       error |-> "none", tasks |-> 0, task_raised |-> "none"]

SpecPipeline == InitPipeline /\ [][NextPipeline]_vars

\* ---------------------------------------------------------------------------
\* Properties of Route.__call__ with a group
\* ---------------------------------------------------------------------------

Happened(event) == \E k \in 1..Len(pipeline.events) : pipeline.events[k] = event

\* C22: for a route of a group and an allowed method, group_check is called
\* before the callback; a Response of group_check is the response sent and the
\* callback is not invoked; when group_check returns None the callback is
\* invoked with (group, request) and its response is sent.
C22_GroupCheck ==
    (pipeline.pc \in {"called", "handled"} /\ pipeline.has_group /\ pipeline.allowed) =>
        /\ pipeline.events[1] = "group_check"
        /\ pipeline.check = "Response" =>
               /\ ~Happened("callback")
               /\ pipeline.sent = Response_call(403, "denied")
        /\ pipeline.check = "None" =>
               /\ pipeline.events[2] = "callback"
               /\ pipeline.args = <<"group", "request">>
               /\ pipeline.cb = "Response" => pipeline.sent = Response_call(200, "ok")

\* group_check returned a Response for a callback that would have answered.
C22_Witness ==
    /\ pipeline.pc = "called"
    /\ pipeline.has_group /\ pipeline.allowed
    /\ pipeline.check = "Response" /\ pipeline.cb = "Response"
    /\ pipeline.sent = Response_call(403, "denied")

\* group_check or the callback raised.
Raised == pipeline.error # "none"

\* The first hook that returns a Response: the group's, then the application's.
FirstHookResponse ==
    IF pipeline.has_group /\ pipeline.group_on_error = "Response" THEN "group"
    ELSE IF pipeline.app_on_error = "Response" THEN "app"
    ELSE "none"

\* C23: when group_check or the callback raises, the group hook is consulted
\* before the application hook, the application hook is not invoked when the
\* group hook returned a Response, and the Response of the first hook that
\* returned one is sent.
C23_HookOrder ==
    (pipeline.pc = "handled" /\ Raised) =>
        /\ FirstHookResponse = "group" =>
               /\ Happened("group.on_error")
               /\ ~Happened("app.on_error")
               /\ pipeline.sent = Response_call(400, "group hook")
        /\ FirstHookResponse = "app" =>
               /\ Happened("app.on_error")
               /\ pipeline.sent = Response_call(418, "app hook")

\* C24: when group_check or the callback raises and no hook returns a Response,
\* a 500 response is sent (one start, one body); outside debug mode nothing
\* escapes, in debug mode the exception is re-raised after the response.
C24_Default500 ==
    (pipeline.pc = "handled" /\ Raised /\ FirstHookResponse = "none") =>
        /\ pipeline.sent = Response_call(500, "Internal Server Error")
        /\ pipeline.escaped = IF pipeline.debug THEN pipeline.error ELSE "none"

\* ---------------------------------------------------------------------------
\* Groups and their registration (groups.py 24-48, app.py 88-114, 149-152)
\* ---------------------------------------------------------------------------

\* Bound of the registry model: how many group instances are constructed.
MaxInstances == 2

\* str.lower() on the segments the groups use.
Lower(tok) ==
    CASE tok = "A" -> "a"
      [] tok = "B" -> "b"
      [] tok = "U" -> "u"
      [] OTHER -> tok

StrLower(str) == [k \in 1..Len(str) |-> Lower(str[k])]

\* str.lstrip("/")
RECURSIVE LStripSlash(_)
LStripSlash(str) ==
    IF str # <<>> /\ str[1] = "/" THEN LStripSlash(Tail(str)) ELSE str

\* The group classes of the model: the class name, the prefix keyword of the
\* class statement (<<>> when it is not given) and the routes in the order in
\* which the class body declares them, each under its attribute name.
GroupClasses ==
    {[name |-> "A", prefix |-> <<"/", "a">>,
      decl |-> <<[attr |-> "first", path |-> <<"/", "b">>],
                 [attr |-> "second", path |-> <<"/", "b">>]>>],
     [name |-> "B", prefix |-> <<>>,
      decl |-> <<[attr |-> "zeta", path |-> <<"/", "u">>],
                 [attr |-> "alpha", path |-> <<"/", "u">>]>>],
     [name |-> "U", prefix |-> <<"A">>,
      decl |-> <<[attr |-> "ping", path |-> <<"/", "b">>]>>]}

\* Group.__init_subclass__: cls.prefix = prefix or cls.__name__, with a leading
\* "/" added when it has none.
Group_init_subclass(cls) ==
    LET prefix == IF cls.prefix # <<>> THEN cls.prefix ELSE <<cls.name>>
    IN  IF prefix[1] # "/" THEN <<"/">> \o prefix ELSE prefix

\* Group.name
Group_name(cls) == Lower(cls.name)

\* The position of an attribute name in the sorted order of the names.
NameRank(attr) ==
    CASE attr = "alpha" -> 1
      [] attr = "first" -> 2
      [] attr = "ping" -> 3
      [] attr = "second" -> 4
      [] attr = "zeta" -> 5

\* The route objects: a Route made by a decorator in a class body is an
\* attribute of the class, one object for all instances of the class.
RouteId(cls, k) == <<cls.name, cls.decl[k].attr>>

PlainRoute == <<"app", "plain">>

RouteIds ==
    {PlainRoute} \cup UNION {{RouteId(cls, k) : k \in 1..Len(cls.decl)} : cls \in GroupClasses}

\* inspect.getmembers(self, predicate): the routes of the class sorted by
\* attribute name.
RECURSIVE SortByName(_)
SortByName(S) ==
    IF S = {} THEN <<>>
    ELSE LET m == CHOOSE x \in S : \A y \in S : NameRank(x[2]) <= NameRank(y[2])
         IN  <<m>> \o SortByName(S \ {m})

getmembers(cls) == SortByName({RouteId(cls, k) : k \in 1..Len(cls.decl)})

\* The loop of Group.__init__ over the members from position k on: each route
\* object gets the instance as its group and its path rewritten from its
\* current path.
RECURSIVE GroupInitLoop(_, _, _, _, _)
GroupInitLoop(objs, members, k, prefix, self) ==
    IF k > Len(members) THEN objs
    ELSE GroupInitLoop(
             [objs EXCEPT ![members[k]] =
                 [@ EXCEPT !.group = self,
                           !.path = StrLower(prefix) \o <<"/">> \o LStripSlash(@)]],
             members, k + 1, prefix, self)

\* Application.add_route: the path is compiled and the route appended.
Application_add_route(reg, id) ==
    [reg EXCEPT !.objs[id].path_data = BaseRoute_compile_path(reg.objs[id].path, <<>>).data,
                !.router = Append(@, id)]

\* The loop of Application.add_group over group.__routes__ from position k on.
RECURSIVE AddGroupLoop(_, _, _, _)
AddGroupLoop(reg, members, k, prefix) ==
    IF k > Len(members) THEN reg
    ELSE LET id == members[k]
             renamed == IF prefix # <<>>
                        THEN [reg EXCEPT !.objs[id].path = <<"/">> \o prefix \o @]
                        ELSE reg
         IN  AddGroupLoop(Application_add_route(renamed, id), members, k + 1, prefix)

\* `group in self._state.groups`: Group defines no __eq__, so the list is
\* searched for the same object.
GroupInGroups(reg, i) == \E k \in 1..Len(reg.groups) : reg.groups[k] = i

\* The record of the call that completed last.
RegistryCall(op, reg, i, raised) ==
    [op |-> op, instance |-> i, raised |-> raised,
     router_before |-> reg.router, groups_before |-> reg.groups]

\* Application.add_group(group, prefix=prefix)
Application_add_group(reg, i, prefix) ==
    IF GroupInGroups(reg, i)
    THEN [reg EXCEPT !.last = RegistryCall("add_group", reg, i, "GroupAlreadyAdded")]
    ELSE [AddGroupLoop(reg, reg.instances[i].routes, 1, prefix) EXCEPT
              !.groups = Append(@, i),
              !.last = RegistryCall("add_group", reg, i, "none")]

\* Group.__init__ of a new instance of cls.
Group_init(reg, cls) ==
    LET self == Len(reg.instances) + 1
        members == getmembers(cls)
    IN  [reg EXCEPT !.objs = GroupInitLoop(@, members, 1, Group_init_subclass(cls), self),
                    !.instances = Append(@, [cls |-> cls.name, routes |-> members]),
                    !.last = RegistryCall("Group", reg, self, "none")]

\* A group is constructed.
Construct(cls) ==
    /\ registry.pc = "ready"
    /\ Len(registry.instances) < MaxInstances
    /\ registry' = Group_init(registry, cls)
    /\ UNCHANGED <<wsvars, routervars, lifespanvars, requestvars, pipeline, response, endpointvars>>

\* The application adds a group, with or without an extra prefix.
AddGroup(i, prefix) ==
    /\ registry.pc = "ready"
    /\ i \in 1..Len(registry.instances)
    /\ registry' = Application_add_group(registry, i, prefix)
    /\ UNCHANGED <<wsvars, routervars, lifespanvars, requestvars, pipeline, response, endpointvars>>

\* The application adds a route of its own.
AddRoute ==
    /\ registry.pc = "ready"
    /\ \A k \in 1..Len(registry.router) : registry.router[k] # PlainRoute
    /\ registry' = [Application_add_route(registry, PlainRoute) EXCEPT
                        !.last = RegistryCall("add_route", registry, 0, "none")]
    /\ UNCHANGED <<wsvars, routervars, lifespanvars, requestvars, pipeline, response, endpointvars>>

NextRegistry ==
    \/ \E cls \in GroupClasses : Construct(cls)
    \/ \E i \in 1..MaxInstances, prefix \in {<<>>, <<"u">>} : AddGroup(i, prefix)
    \/ AddRoute

\* The declared path of a route object.
DeclaredPath(id) ==
    IF id = PlainRoute THEN <<"/", "a">>
    ELSE LET cls == CHOOSE c \in GroupClasses : c.name = id[1]
             k == CHOOSE k \in 1..Len(cls.decl) : cls.decl[k].attr = id[2]
         IN  cls.decl[k].path

\* The classes are defined, their routes carry the declared paths, nothing is
\* registered.
InitRegistry ==
    /\ InitQuiet
    /\ lifespan = NoLifespan
    /\ request = NoRequest
    /\ pipeline = NoPipeline
    /\ response = NoResponse
    /\ wsendpoint = NoEndpoint
    /\ readers = NoReaders
    /\ registry = [pc |-> "ready",
                   objs |-> [id \in RouteIds |->
                                [path |-> DeclaredPath(id), group |-> 0, path_data |-> <<>>]],
                   instances |-> <<>>, groups |-> <<>>, router |-> <<>>,
                   last |-> RegistryCall("-", [router |-> <<>>, groups |-> <<>>], 0, "none")]

SpecRegistry == InitRegistry /\ [][NextRegistry]_vars

\* ---------------------------------------------------------------------------
\* Properties of groups
\* ---------------------------------------------------------------------------

ClassOf(i) == CHOOSE c \in GroupClasses : c.name = registry.instances[i].cls

\* A group of the same name was registered when the last call started.
SameNameRegistered ==
    \E k \in 1..Len(registry.last.groups_before) :
        Group_name(ClassOf(registry.last.groups_before[k])) =
            Group_name(ClassOf(registry.last.instance))

\* C25: add_group fails with GroupAlreadyAdded whenever a group of the same
\* name is registered, the same instance or another instance of the class, and
\* the failed call leaves the route list and the groups list as they were.
C25_GroupAlreadyAdded ==
    (registry.pc = "ready" /\ registry.last.op = "add_group" /\ SameNameRegistered) =>
        /\ registry.last.raised = "GroupAlreadyAdded"
        /\ registry.router = registry.last.router_before
        /\ registry.groups = registry.last.groups_before

\* The route that Router.__call__ dispatches a GET of the path to: the position
\* in the router's list, 0 when no route matches.
RegistryDispatch(path) ==
    FirstMatch([k \in 1..Len(registry.router) |->
                    [kind |-> "http",
                     path_data |-> registry.objs[registry.router[k]].path_data]],
               "http", NormalizePath(path), 1)

\* The routes of a class in the order of their declaration.
Declared(cls) == [k \in 1..Len(cls.decl) |-> RouteId(cls, k)]

\* C26: the routes of an added group follow all routes registered before, in
\* the order of their declaration in the group, so a request that routes of the
\* group match is dispatched to the one declared first.
C26_DeclarationOrder ==
    (registry.pc = "ready" /\ registry.last.op = "add_group"
        /\ registry.last.raised = "none") =>
        /\ registry.router =
               registry.last.router_before \o Declared(ClassOf(registry.last.instance))
        /\ registry.last.router_before = <<>> =>
               LET first == Declared(ClassOf(registry.last.instance))[1]
               IN  registry.router[RegistryDispatch(registry.objs[first].path)] = first

\* C27: every route of a constructed group has the path made of the group's
\* prefix as declared, one "/", and the route's declared path, the prefix
\* applied once.
C27_GroupPath ==
    registry.pc = "ready" =>
        \A i \in 1..Len(registry.instances) :
            GroupInGroups(registry, i) =>
                \A k \in 1..Len(ClassOf(i).decl) :
                    \E extra \in {<<>>, <<"/", "u">>} :
                        registry.objs[RouteId(ClassOf(i), k)].path =
                            extra \o Group_init_subclass(ClassOf(i)) \o <<"/">>
                                  \o LStripSlash(ClassOf(i).decl[k].path)

\* ---------------------------------------------------------------------------
\* Response._process_headers and Response.__call__ (responses.py 75-123)
\* ---------------------------------------------------------------------------

\* Bounds of the response model.
MaxHeaders == 2

MaxEmissions == 2

\* The header names callers supply, and the value supplied under each.
HeaderNames ==
    {"content-length", "Content-Length", "content-type", "Content-Type", "content_type",
     "x-a"}

SuppliedValue(name) ==
    CASE name \in {"content-length", "Content-Length"} -> "9"
      [] name \in {"content-type", "Content-Type", "content_type"} -> "a/b"
      [] OTHER -> "v"

\* k.lower() for the header names.
HeaderLower(name) ==
    CASE name = "Content-Length" -> "content-length"
      [] name = "Content-Type" -> "content-type"
      [] OTHER -> name

\* Response._parse_body without msgspec: None is b"", a str is encoded as
\* UTF-8; the result here is the number of bytes.
Response_parse_body(data) ==
    CASE data = "None" -> 0
      [] data = "ok" -> 2
      [] data = "h\\u00e9" -> 3

\* str(content_length)
Str(n) ==
    CASE n = 0 -> "0"
      [] n = 1 -> "1"
      [] n = 2 -> "2"
      [] n = 3 -> "3"
      [] n = 4 -> "4"
      [] n = 5 -> "5"

\* A dict is a sequence of <<key, value>> pairs in insertion order.
DictHas(d, key) == \E k \in 1..Len(d) : d[k][1] = key

\* d[key] = value: an existing key keeps its position.
DictSet(d, key, value) ==
    IF DictHas(d, key)
    THEN [k \in 1..Len(d) |-> IF d[k][1] = key THEN <<key, value>> ELSE d[k]]
    ELSE Append(d, <<key, value>>)

\* The content-type made of a media type.
ContentType(media_type) ==
    CASE media_type = "text/html" -> "text/html; charset=utf-8"
      [] OTHER -> media_type

\* Response._process_headers: headers is self.headers itself, so the inserted
\* items stay in the Response; the test for a supplied content type looks up
\* the key "content_type".
Response_process_headers(headers, media_type, content_length) ==
    LET h1 == IF ~DictHas(headers, "content-length")
              THEN DictSet(headers, "content-length", Str(content_length))
              ELSE headers
    IN  IF media_type # "None" /\ ~DictHas(h1, "content_type")
        THEN DictSet(h1, "content-type", ContentType(media_type))
        ELSE h1

\* The list _process_headers returns.
HeaderList(headers) == [k \in 1..Len(headers) |-> <<HeaderLower(headers[k][1]), headers[k][2]>>]

\* ResponseFormatter.__call__ without a format_<status> method: the response
\* itself.
ResponseFormatter_call(resp) == resp

\* Response.__call__: the start message with the headers, then the body.
Response_emit(resp) ==
    LET self == ResponseFormatter_call(resp)
        body == Response_parse_body(self.data)
        headers == Response_process_headers(self.headers, self.media_type, body)
    IN  [self EXCEPT !.headers = headers,
                     !.emissions = Append(@, [headers |-> HeaderList(headers),
                                              body |-> body])]

\* The response is sent.
Emit ==
    /\ response.pc = "ready"
    /\ Len(response.emissions) < MaxEmissions
    /\ response' = Response_emit(response)
    /\ UNCHANGED <<wsvars, routervars, lifespanvars, requestvars, pipeline, registry, endpointvars>>

NextResponse == Emit

\* The dicts of up to n of the header names.
RECURSIVE DictsUpTo(_)
DictsUpTo(n) ==
    IF n = 0 THEN {<<>>}
    ELSE DictsUpTo(n - 1) \cup
         {Append(d, <<name, SuppliedValue(name)>>) :
             d \in {d \in DictsUpTo(n - 1) : Len(d) = n - 1},
             name \in HeaderNames}

\* Response.__init__: the data, the media type and the caller's headers.
InitResponse ==
    /\ InitQuiet
    /\ lifespan = NoLifespan
    /\ request = NoRequest
    /\ pipeline = NoPipeline
    /\ registry = NoRegistry
    /\ wsendpoint = NoEndpoint
    /\ readers = NoReaders
    /\ \E data \in {"None", "ok", "h\\u00e9"},
          media_type \in {"None", "text/html", "application/json"},
          headers \in {d \in DictsUpTo(MaxHeaders) :
                          \A i \in 1..Len(d) : \A j \in 1..Len(d) : d[i][1] = d[j][1] => i = j} :
           response = [pc |-> "ready", data |-> data, media_type |-> media_type,
                       headers |-> headers, supplied |-> headers, emissions |-> <<>>]

SpecResponse == InitResponse /\ [][NextResponse]_vars

\* ---------------------------------------------------------------------------
\* Properties of the response headers
\* ---------------------------------------------------------------------------

\* The caller supplied a header of this name, in any case of the letters.
Supplied(name) ==
    \E k \in 1..Len(response.supplied) : HeaderLower(response.supplied[k][1]) = name

\* The values an emitted header list has under a name.
Emitted(n, name) ==
    {response.emissions[n].headers[k][2] :
        k \in {k \in 1..Len(response.emissions[n].headers) :
                  response.emissions[n].headers[k][1] = name}}

\* C28: a Response without content-length is emitted with content-length equal
\* to the byte length of the body sent; with a media type and no content-type
\* supplied it is emitted with the content-type made of the media type; all
\* names are emitted in lower case.
C28_InsertedHeaders ==
    (response.pc = "ready" /\ Len(response.emissions) >= 1) =>
        /\ ~Supplied("content-length") =>
               Emitted(1, "content-length") = {Str(response.emissions[1].body)}
        /\ (response.media_type # "None" /\ ~Supplied("content-type")) =>
               Emitted(1, "content-type") = {ContentType(response.media_type)}
        /\ \A k \in 1..Len(response.emissions[1].headers) :
               HeaderLower(response.emissions[1].headers[k][1]) =
                   response.emissions[1].headers[k][1]

\* C29: a content-type supplied by the caller is the content-type emitted, for
\* every media type.
C29_ContentTypeKept ==
    (response.pc = "ready" /\ Len(response.emissions) >= 1
        /\ DictHas(response.supplied, "content-type")) =>
        Emitted(1, "content-type") = {"a/b"}

\* C30: two emissions of one Response have the same header list, and no name
\* occurs twice in it.
C30_SameHeadersTwice ==
    (response.pc = "ready" /\ Len(response.emissions) >= 2) =>
        /\ response.emissions[1].headers = response.emissions[2].headers
        /\ \A i \in 1..Len(response.emissions[1].headers) :
               \A j \in 1..Len(response.emissions[1].headers) :
                   response.emissions[1].headers[i][1] = response.emissions[1].headers[j][1]
                       => i = j

-----------------------------------------------------------------------------
(* The WebSocket endpoint: WebSocketRoute.__call__ step by step.  The run   *)
(* is suspended only where it awaits the gateway's receive; everything      *)
(* between two such points happens in one step.                             *)

MaxEndpointInbound == 4 \* inbound messages delivered during one endpoint run

\* enums.WSCodes members the endpoint names.
UNSUPPORTED_DATA == 1003
INTERNAL_ERROR == 1011

\* WSCodes(code): a recognised code is its member, any other passes through.
WSCodes(code) == code

\* One recorded call of a hook of the endpoint; for on_receive, code is the
\* number of inbound messages consumed when it was called.
EndpointEvent(ev, data, code) == [ev |-> ev, data |-> data, code |-> code]

Emit_event(e, ev, data, code) ==
    [e EXCEPT !.events = Append(@, EndpointEvent(ev, data, code))]

\* WebSocketRoute.on_disconnect(ws, code): the default body is `...`.
WebSocketRoute_on_disconnect(e, code) == Emit_event(e, "on_disconnect", "-", code)

\* `await self._state.on_ws_error(ws, error)`.  State (state.py) defines no
\* on_ws_error: hook = "undefined" is that class as it stands, the lookup
\* raising AttributeError.  Otherwise the group's hook (groups.py:100, returns
\* None) and then the application's are called, and the application's either
\* re-raises the error (app.py:200-201, the default) or is overridden to return.
\* errors remembers each exception handed over, where the run was ("new" or
\* "accepting": in on_connect; "loop") and the application state at that time.
State_on_ws_error(e0, error) ==
    LET e == [e0 EXCEPT !.errors = Append(@, [error |-> error, at |-> e0.pc,
                                              app |-> e0.application_state])]
    IN  IF e.hook = "undefined"
        THEN [e EXCEPT !.raised = "AttributeError"]
        ELSE LET g == IF e.has_group THEN Emit_event(e, "group.on_ws_error", error, 0) ELSE e
                 a == Emit_event(g, "app.on_ws_error", error, 0)
             IN  [a EXCEPT !.raised = IF e.hook = "raises" THEN error ELSE "none"]

\* WebSocket.close(code) on the connection of the endpoint: send() of the
\* close message under the application state.
Endpoint_ws_close(e, code) ==
    LET r == WebSocket_send(e.application_state, CloseMsg(code, MISSING))
    IN  [e EXCEPT !.application_state = r.application_state,
                  !.sent = IF r.forwarded THEN Append(@, CloseMsg(code, MISSING)) ELSE @,
                  !.raised = r.raised]

\* The `data` _dispatch_receive extracts from msg under the encoding, None
\* (Absent) when the key of the encoding is missing.
DispatchData(encoding, msg) ==
    CASE encoding = "bytes" -> msg.bytes
      [] encoding = "text" -> msg.text
      [] OTHER -> IF msg.text # Absent THEN msg.text ELSE msg.bytes

\* WebSocketRoute._dispatch_receive(ws, msg): raised is the exception that
\* leaves it, "none" when on_receive returned.
WebSocketRoute_dispatch_receive(e, msg) ==
    LET data == DispatchData(e.encoding, msg)
        closed == Endpoint_ws_close(e, UNSUPPORTED_DATA)
    IN  IF data = Absent \/ (e.encoding = "json" /\ JsonLoads(data).raised # "none")
        THEN IF closed.raised # "none" THEN closed
             ELSE [closed EXCEPT !.raised = "RuntimeError"]
        ELSE LET value == IF e.encoding = "json" THEN JsonLoads(data).value ELSE data
                 after == Emit_event(e, "on_receive", value, Len(e.received))
             IN  [after EXCEPT !.raised = IF e.on_receive = "raise" THEN "Boom" ELSE "none"]

\* The end of __call__: `finally: await self.on_disconnect(ws, close_code)`,
\* then the return, or the exception on its way out.
WebSocketRoute_finally(e, close_code, error) ==
    [WebSocketRoute_on_disconnect(e, close_code) EXCEPT
        !.pc = "done", !.escaped = error, !.raised = "none"]

\* `except Exception as e:` of the receive loop (routing.py:345-349): the hook,
\* then close_code = INTERNAL_ERROR unless the hook raised, then the finally.
WebSocketRoute_loop_error(e, error) ==
    LET h == State_on_ws_error(e, error)
    IN  IF h.raised # "none"
        THEN WebSocketRoute_finally(h, e.close_code, h.raised)
        ELSE WebSocketRoute_finally(h, INTERNAL_ERROR, "none")

\* `msg = await ws.receive()` at the head of the loop: receive() raises at once
\* on a disconnected client side, otherwise the run is suspended in _receive.
WebSocketRoute_loop_receive(e) ==
    IF e.client_state = "disconnected"
    THEN WebSocketRoute_loop_error(e, AlreadyDisconnected)
    ELSE [e EXCEPT !.pc = "loop", !.branch = e.client_state]

\* Mutant of WebSocketRoute_loop_message: a websocket.disconnect does not leave
\* the loop.
WebSocketRoute_loop_message_no_break(e, msg) ==
    IF msg.type = "websocket.receive"
    THEN LET d == WebSocketRoute_dispatch_receive(e, msg)
         IN  IF d.raised # "none" THEN WebSocketRoute_loop_error(d, d.raised)
             ELSE WebSocketRoute_loop_receive(d)
    ELSE WebSocketRoute_loop_receive(e)

\* The body of the loop for the message receive() returned (routing.py:337-344).
WebSocketRoute_loop_message(e, msg) ==
    CASE msg.type = "websocket.receive" ->
           LET d == WebSocketRoute_dispatch_receive(e, msg)
           IN  IF d.raised # "none" THEN WebSocketRoute_loop_error(d, d.raised)
               ELSE WebSocketRoute_loop_receive(d)
      [] msg.type = "websocket.disconnect" ->
           WebSocketRoute_finally(e, IF msg.code # 0 THEN WSCodes(msg.code) ELSE NORMAL_CLOSURE,
                                  "none")
      [] OTHER -> WebSocketRoute_loop_receive(e)

\* After the try around on_connect (routing.py:331-334): return when on_receive
\* is the class's own, otherwise close_code = NORMAL_CLOSURE and the loop.
WebSocketRoute_after_connect(e) ==
    IF e.on_receive = "original"
    THEN [e EXCEPT !.pc = "done"]
    ELSE WebSocketRoute_loop_receive([e EXCEPT !.close_code = NORMAL_CLOSURE])

\* `except Exception as e:` around on_connect (routing.py:327-329).
WebSocketRoute_connect_error(e, error) ==
    LET h == State_on_ws_error(e, error)
    IN  IF h.raised # "none"
        THEN [h EXCEPT !.pc = "done", !.escaped = h.raised, !.raised = "none"]
        ELSE WebSocketRoute_after_connect(WebSocketRoute_on_disconnect(h, INTERNAL_ERROR))

\* on_connect once accept() has the connect message: the accept is sent, and
\* an overriding on_connect may raise afterwards.
WebSocketRoute_on_connect_accepted(e) ==
    LET r == WebSocket_send(e.application_state, AcceptMsg)
        a == [e EXCEPT !.application_state = r.application_state,
                       !.sent = IF r.forwarded THEN Append(@, AcceptMsg) ELSE @]
    IN  IF r.raised # "none" THEN WebSocketRoute_connect_error(a, r.raised)
        ELSE IF e.on_connect = "accept_raise" THEN WebSocketRoute_connect_error(a, "Boom")
        ELSE WebSocketRoute_after_connect(a)

\* The message receive() was suspended for arrives (requests.py:168-189).
Endpoint_resume(e, msg) ==
    LET r == WebSocket_receive(e.branch, e.client_state, msg)
        got == [e EXCEPT !.client_state = r.client_state,
                         !.received = Append(@, [msg |-> msg, by |-> e.pc,
                                                 raised |-> r.raised])]
    IN  IF e.pc = "accepting"
        THEN IF r.raised # "none" THEN WebSocketRoute_connect_error(got, r.raised)
             ELSE WebSocketRoute_on_connect_accepted(got)
        ELSE IF r.raised # "none" THEN WebSocketRoute_loop_error(got, r.raised)
             ELSE WebSocketRoute_loop_message(got, msg)

\* WebSocketRoute.__call__ up to its first suspension: on_connect is called;
\* the default awaits ws.accept(), which first receives the connect message.
EndpointCall ==
    /\ wsendpoint.pc = "new"
    /\ wsendpoint' =
         LET e == Emit_event(wsendpoint, "on_connect", "-", 0)
         IN  IF e.on_connect = "raise" THEN WebSocketRoute_connect_error(e, "Boom")
             ELSE [e EXCEPT !.pc = "accepting", !.branch = "connecting"]
    /\ UNCHANGED <<wsvars, routervars, lifespanvars, requestvars, appvars, readers>>

\* The gateway delivers msg to the suspended receive.
EndpointDeliver(msg) ==
    /\ wsendpoint.pc \in {"accepting", "loop"}
    /\ Len(wsendpoint.received) < MaxEndpointInbound
    /\ wsendpoint' = Endpoint_resume(wsendpoint, msg)
    /\ UNCHANGED <<wsvars, routervars, lifespanvars, requestvars, appvars, readers>>

\* What the gateway may deliver to the endpoint.
EndpointInMsgs ==
    {Msg("websocket.connect"),
     [Msg("websocket.receive") EXCEPT !.text = "hi"],
     [Msg("websocket.receive") EXCEPT !.text = "[]"],
     [Msg("websocket.receive") EXCEPT !.bytes = "by"],
     Msg("websocket.disconnect"),
     [Msg("websocket.disconnect") EXCEPT !.code = GOING_AWAY],
     Msg("websocket.accept")}

NextEndpoint ==
    \/ EndpointCall
    \/ \E msg \in EndpointInMsgs : EndpointDeliver(msg)

InitEndpoint ==
    /\ InitQuiet
    /\ lifespan = NoLifespan
    /\ request = NoRequest
    /\ pipeline = NoPipeline
    /\ registry = NoRegistry
    /\ response = NoResponse
    /\ readers = NoReaders
    /\ \E encoding \in {"text", "bytes", "json"},
          on_connect \in {"accept", "accept_raise", "raise"},
          on_receive \in {"original", "return", "raise"},
          hook \in {"undefined", "returns", "raises"}, has_group \in BOOLEAN :
           wsendpoint = [pc |-> "new", encoding |-> encoding, on_connect |-> on_connect,
                         on_receive |-> on_receive, hook |-> hook, has_group |-> has_group,
                         client_state |-> "connecting", application_state |-> "connecting",
                         branch |-> "-", close_code |-> 0, sent |-> <<>>, received |-> <<>>,
                         events |-> <<>>, errors |-> <<>>, raised |-> "none",
                         escaped |-> "none"]

SpecEndpoint == InitEndpoint /\ [][NextEndpoint]_vars

\* ---------------------------------------------------------------------------
\* Properties of the WebSocket endpoint

EndpointEvents(ev) == SelectSeq(wsendpoint.events, LAMBDA x : x.ev = ev)

\* The positions in `received` of the messages receive() returned to the loop.
LoopReturned(type) ==
    {i \in 1..Len(wsendpoint.received) :
        /\ wsendpoint.received[i].by = "loop"
        /\ wsendpoint.received[i].raised = "none"
        /\ wsendpoint.received[i].msg.type = type}

LastEvent == wsendpoint.events[Len(wsendpoint.events)]

\* The payload on_receive is given for msg under the endpoint's encoding.
Payload(msg) ==
    CASE wsendpoint.encoding = "bytes" -> msg.bytes
      [] wsendpoint.encoding = "text" -> msg.text
      [] OTHER -> IF msg.text = "[]" THEN "list:empty" ELSE "<undecodable>"

\* C31: in the receive loop the websocket.receive messages are handed to
\* on_receive one at a time in arrival order, each before the next inbound
\* message is consumed; a websocket.disconnect ends the loop, nothing is
\* consumed after it, and on_disconnect is then called with its code (1000
\* when it has none) after every earlier message was dispatched.
C31_LoopOrder ==
    wsendpoint.pc # "none" =>
        LET calls == EndpointEvents("on_receive")
            n == Len(wsendpoint.received)
        IN  /\ \A j \in 1..Len(calls) :
                  /\ calls[j].code \in LoopReturned("websocket.receive")
                  /\ calls[j].data = Payload(wsendpoint.received[calls[j].code].msg)
                  /\ j > 1 => calls[j - 1].code < calls[j].code
            /\ \A i \in LoopReturned("websocket.receive") :
                  \/ \E j \in 1..Len(calls) : calls[j].code = i
                  \/ i = n /\ wsendpoint.pc = "done"
                        /\ Payload(wsendpoint.received[i].msg) \in {Absent, "<undecodable>"}
            /\ \A i \in LoopReturned("websocket.disconnect") :
                  /\ i = n
                  /\ wsendpoint.pc = "done"
                  /\ wsendpoint.escaped = "none"
                  /\ LastEvent = EndpointEvent("on_disconnect", "-",
                         IF wsendpoint.received[i].msg.code = 0 THEN NORMAL_CLOSURE
                         ELSE wsendpoint.received[i].msg.code)
                  /\ Len(calls) = Cardinality(LoopReturned("websocket.receive"))

\* Two messages were dispatched and a disconnect with a code ended the loop.
C31_Witness ==
    /\ wsendpoint.pc = "done"
    /\ Len(EndpointEvents("on_receive")) = 2
    /\ \E i \in LoopReturned("websocket.disconnect") :
           wsendpoint.received[i].msg.code = GOING_AWAY

\* The exceptions handed to the error hook from on_connect / from the loop.
ConnectErrors == SelectSeq(wsendpoint.errors, LAMBDA x : x.at \in {"new", "accepting"})

LoopErrors == SelectSeq(wsendpoint.errors, LAMBDA x : x.at = "loop")

\* The loop was entered: close_code was given its initial value.
LoopEntered == wsendpoint.pc # "none" /\ wsendpoint.close_code # 0

HookInvoked(error) ==
    \E i \in 1..Len(wsendpoint.events) :
        wsendpoint.events[i] = EndpointEvent("app.on_ws_error", error, 0)

\* C32: once the receive loop was entered, on_disconnect is the last thing
\* called when the loop has ended; after receive(), decoding or on_receive
\* raised the error hook was invoked and on_disconnect got 1011, otherwise it
\* got the peer's close code.
C32_DisconnectAlways ==
    (LoopEntered /\ wsendpoint.pc = "done") =>
        /\ LastEvent.ev = "on_disconnect"
        /\ IF Len(LoopErrors) > 0
           THEN /\ HookInvoked(LoopErrors[1].error)
                /\ LastEvent.code = INTERNAL_ERROR
           ELSE \E i \in LoopReturned("websocket.disconnect") :
                    LastEvent.code = IF wsendpoint.received[i].msg.code = 0
                                     THEN NORMAL_CLOSURE
                                     ELSE wsendpoint.received[i].msg.code

\* C33: if on_connect raised, the error hook was invoked with the exception,
\* on_disconnect was then called with 1011, and on_receive is never invoked.
C33_ConnectError ==
    (wsendpoint.pc # "none" /\ Len(ConnectErrors) > 0) =>
        /\ \E i \in 1..Len(wsendpoint.events) :
              /\ wsendpoint.events[i] = EndpointEvent("app.on_ws_error", ConnectErrors[1].error, 0)
              /\ i < Len(wsendpoint.events)
              /\ wsendpoint.events[i + 1] = EndpointEvent("on_disconnect", "-", INTERNAL_ERROR)
        /\ Len(EndpointEvents("on_receive")) = 0

\* C34: when an exception was raised in the endpoint body while the
\* application side was not closed, the run ends with the error routed through
\* on_ws_error, a websocket.close with code 1011 handed to the gateway and
\* application_state disconnected.
C34_ClosedWith1011 ==
    (wsendpoint.pc = "done" /\ \E i \in 1..Len(wsendpoint.errors) :
                                   wsendpoint.errors[i].app # "disconnected") =>
        /\ \A i \in 1..Len(wsendpoint.errors) : HookInvoked(wsendpoint.errors[i].error)
        /\ \E k \in 1..Len(wsendpoint.sent) :
              /\ wsendpoint.sent[k].type = "websocket.close"
              /\ wsendpoint.sent[k].code = INTERNAL_ERROR
        /\ wsendpoint.application_state = "disconnected"

\* C38: on_disconnect is invoked at most once per connection.
C38_DisconnectOnce ==
    wsendpoint.pc # "none" => Len(EndpointEvents("on_disconnect")) <= 1

\* ---------------------------------------------------------------------------
\* Properties of the dispatched scope

\* C35: dispatching leaves scope.path as the gateway delivered it: after
\* Router.__call__ has run, the path in the scope (which the callback,
\* request.url and the middleware read) is the requested path.
C35_PathUnchanged ==
    phase \in {"endpoint", "done"} => scope.path = scope.requested

\* ---------------------------------------------------------------------------
\* Properties of the error pipeline of a route

\* C36: when the callback raised, the error hooks have run by the time the
\* dispatch has returned: no hook is left to a background task that is still
\* pending after Route.__call__ ended.
C36_HooksSynchronous ==
    (pipeline.pc = "called" /\ pipeline.error = "CallbackError") => pipeline.tasks = 0

\* C37: when group_check raised, the route callback is never invoked for the
\* request, whatever the error hooks are and return.
C37_FailedCheckBlocks ==
    (pipeline.pc \in {"called", "handled"} /\ pipeline.has_group /\ pipeline.allowed
        /\ pipeline.check = "raise") =>
        /\ pipeline.error = "CheckError"
        /\ ~Happened("callback")
        /\ pipeline.args = <<"group">>

\* group_check raised for a callback that would have answered, and both hooks
\* have run and returned nothing.
C37_Witness ==
    /\ pipeline.pc = "handled"
    /\ pipeline.has_group /\ pipeline.allowed
    /\ pipeline.check = "raise" /\ pipeline.cb = "Response"
    /\ pipeline.group_on_error = "None" /\ pipeline.app_on_error = "None"
    /\ Happened("group.on_error") /\ Happened("app.on_error")

-----------------------------------------------------------------------------
(* Two tasks awaiting body() on the same Request.  A task is suspended only *)
(* in `await self._receive()` of Request.stream; the cache dict, the flag   *)
(* _stream_consumed and the gateway's messages are shared, the generator    *)
(* object and the list `items` of cached_gen belong to the call.            *)

MaxReaderInbound == 3 \* inbound messages delivered to the request read by two tasks

ReaderTasks == {1, 2}

\* The call of task t ends: with an exception, or cached_gen stores its items
\* under "stream" and yields them, body joins them, cached_coro stores the
\* result under "body" and returns the entry.
Reader_finish(rd, t, items, raised) ==
    IF raised # "none"
    THEN [rd EXCEPT !.tasks[t] = [pc |-> "done", items |-> items, result |-> <<>>,
                                  raised |-> raised]]
    ELSE [rd EXCEPT !.has_stream = TRUE, !.stream_cache = items,
                    !.has_body = TRUE, !.body_cache = BytesJoin(items),
                    !.tasks[t] = [pc |-> "done", items |-> items,
                                  result |-> BytesJoin(items), raised |-> "none"]]

\* `while not self._stream_consumed:` of Request.stream inside the `async for`
\* of cached_gen: the final `yield b""` and the end of the call, or the next
\* `await self._receive()`.
Reader_loop(rd, t, items) ==
    IF rd.stream_consumed
    THEN Reader_finish(rd, t, Append(items, <<>>), "none")
    ELSE [rd EXCEPT !.tasks[t] = [pc |-> "receiving", items |-> items, result |-> <<>>,
                                  raised |-> "none"]]

\* body() up to the first suspension: cached_coro and cached_gen look at the
\* cache, a fresh generator checks _stream_consumed and enters its loop.
Reader_body(rd, t) ==
    IF rd.has_body
    THEN [rd EXCEPT !.tasks[t] = [pc |-> "done", items |-> <<>>, result |-> rd.body_cache,
                                  raised |-> "none"]]
    ELSE IF rd.has_stream
    THEN [rd EXCEPT !.has_body = TRUE, !.body_cache = BytesJoin(rd.stream_cache),
                    !.tasks[t] = [pc |-> "done", items |-> rd.stream_cache,
                                  result |-> BytesJoin(rd.stream_cache), raised |-> "none"]]
    ELSE IF rd.stream_consumed
    THEN Reader_finish(rd, t, <<>>, "RuntimeError")
    ELSE Reader_loop(rd, t, <<>>)

\* Task t awaits request.body().
ReaderCallBody(t) ==
    /\ readers.pc = "ready"
    /\ readers.tasks[t].pc = "idle"
    /\ readers' = Reader_body(readers, t)
    /\ UNCHANGED <<wsvars, routervars, lifespanvars, requestvars, appvars, wsendpoint>>

\* The gateway's receive returns message m to task t, suspended in it.
ReaderDeliver(t, m) ==
    /\ readers.pc = "ready"
    /\ readers.tasks[t].pc = "receiving"
    /\ Len(readers.inbox) < MaxReaderInbound
    /\ GatewayMayDeliver(readers.inbox, m)
    /\ LET got == [readers EXCEPT !.inbox = Append(@, m), !.by = Append(@, t)]
           step == StreamMessage(got, readers.tasks[t].items, m)
       IN  readers' = IF step.raised # "none"
                      THEN Reader_finish(step.req, t, step.items, step.raised)
                      ELSE Reader_loop(step.req, t, step.items)
    /\ UNCHANGED <<wsvars, routervars, lifespanvars, requestvars, appvars, wsendpoint>>

NextReaders ==
    \/ \E t \in ReaderTasks : ReaderCallBody(t)
    \/ \E t \in ReaderTasks, m \in HttpMsgs : ReaderDeliver(t, m)

InitReaders ==
    /\ InitQuiet
    /\ lifespan = NoLifespan
    /\ request = NoRequest
    /\ pipeline = NoPipeline
    /\ registry = NoRegistry
    /\ response = NoResponse
    /\ wsendpoint = NoEndpoint
    /\ readers = [pc |-> "ready", inbox |-> <<>>, by |-> <<>>,
                  stream_consumed |-> FALSE, is_disconnected |-> FALSE,
                  has_stream |-> FALSE, stream_cache |-> <<>>,
                  has_body |-> FALSE, body_cache |-> <<>>,
                  tasks |-> [t \in ReaderTasks |->
                                [pc |-> "idle", items |-> <<>>, result |-> <<>>,
                                 raised |-> "none"]]]

SpecReaders == InitReaders /\ [][NextReaders]_vars

\* ---------------------------------------------------------------------------
\* Properties of concurrent body() calls

\* The request body as delivered so far: the bodies of the http.request
\* messages, in order.
DeliveredBody ==
    BytesJoin([i \in 1..Len(SelectSeq(readers.inbox, LAMBDA m : m.type = "http.request")) |->
                  SelectSeq(readers.inbox, LAMBDA m : m.type = "http.request")[i].body])

\* The last http.request message (more_body false) has been delivered.
BodyComplete ==
    \E i \in 1..Len(readers.inbox) :
        readers.inbox[i].type = "http.request" /\ ~readers.inbox[i].more_body

\* C39: when two tasks call body() on the same Request and interleave at the
\* receive suspension points, every call that has ended returned the complete
\* body, the cached body is the complete body, and once the last http.request
\* message has been consumed no call is left waiting.
C39_ConcurrentBody ==
    (readers.pc # "none" /\ BodyComplete) =>
        /\ \A t \in ReaderTasks :
              /\ readers.tasks[t].pc # "receiving"
              /\ readers.tasks[t].pc = "done" =>
                    /\ readers.tasks[t].raised = "none"
                    /\ readers.tasks[t].result = DeliveredBody
        /\ readers.has_body => readers.body_cache = DeliveredBody

-----------------------------------------------------------------------------
(* A Response emitted more than once: the body may be reassigned between    *)
(* the emissions and each request brings its own Accept header.             *)

AcceptHeaders == {"None", "application/json", "application/msgpack"}

\* The number of bytes msgspec's encoders produce for the data of the model:
\* JSON null, "ok" and the five bytes of a quoted two-character string with
\* one two-byte character; MessagePack nil and the fixstr forms.
msgspec_encode(format, data) ==
    IF format = "msgpack"
    THEN CASE data = "None" -> 1
           [] data = "ok" -> 3
           [] OTHER -> 4
    ELSE CASE data = "None" -> 4
           [] data = "ok" -> 4
           [] OTHER -> 5

\* Response._msgspec_parsing: -1 stands for None (msgspec is not installed);
\* an Accept header that names no format selects state.default_encoder, here
\* the JSON encoder (default_body_format="json", app.py:62-70).
Response_msgspec_parsing(data, accept_header, installed) ==
    IF ~installed THEN -1
    ELSE IF accept_header = "application/msgpack" THEN msgspec_encode("msgpack", data)
    ELSE msgspec_encode("json", data)

\* Response._parse_body(accept_header=..., state=...): the number of bytes.
Response_parse_body_accept(data, accept_header, installed) ==
    LET d == Response_msgspec_parsing(data, accept_header, installed)
    IN  IF d # -1 THEN d ELSE Response_parse_body(data)

\* Response.__call__ for a request with the given Accept header.
Response_call_accept(resp, accept_header) ==
    LET self == ResponseFormatter_call(resp)
        body == Response_parse_body_accept(self.data, accept_header, self.installed)
        headers == Response_process_headers(self.headers, self.media_type, body)
    IN  [self EXCEPT !.headers = headers,
                     !.emissions = Append(@, [headers |-> HeaderList(headers),
                                              body |-> body])]

\* The response is sent to a request with the Accept header accept_header.
EmitAccept(accept_header) ==
    /\ response.pc = "reusable"
    /\ Len(response.emissions) < MaxEmissions
    /\ response' = Response_call_accept(response, accept_header)
    /\ UNCHANGED <<wsvars, routervars, lifespanvars, requestvars, pipeline, registry, endpointvars>>

\* `response.body = data`, the setter of the body property.
SetBody(data) ==
    /\ response.pc = "reusable"
    /\ Len(response.emissions) < MaxEmissions
    /\ data # response.data
    /\ response' = [response EXCEPT !.data = data]
    /\ UNCHANGED <<wsvars, routervars, lifespanvars, requestvars, pipeline, registry, endpointvars>>

NextReemit ==
    \/ \E accept_header \in AcceptHeaders : EmitAccept(accept_header)
    \/ \E data \in {"None", "ok", "h\\u00e9"} : SetBody(data)

InitReemit ==
    /\ InitQuiet
    /\ lifespan = NoLifespan
    /\ request = NoRequest
    /\ pipeline = NoPipeline
    /\ registry = NoRegistry
    /\ wsendpoint = NoEndpoint
    /\ readers = NoReaders
    /\ \E data \in {"None", "ok", "h\\u00e9"}, media_type \in {"None", "text/html"},
          headers \in DictsUpTo(1), installed \in BOOLEAN :
           response = [pc |-> "reusable", data |-> data, media_type |-> media_type,
                       headers |-> headers, supplied |-> headers, installed |-> installed,
                       emissions |-> <<>>]

SpecReemit == InitReemit /\ [][NextReemit]_vars

\* ---------------------------------------------------------------------------
\* Properties of repeated emissions

\* C40: in every emission of a Response for which the caller supplied no
\* content-length, also the later ones after the body was reassigned or with
\* another Accept header, the content-length of the start message is the byte
\* length of the body sent with it.
C40_ContentLengthMatches ==
    (response.pc = "reusable" /\ ~Supplied("content-length")) =>
        \A n \in 1..Len(response.emissions) :
            Emitted(n, "content-length") = {Str(response.emissions[n].body)}

====
